---- MODULE Spec2Model ----
(***************************************************************************)
(* A model of vocode's StreamingConversation: the pipeline of stages       *)
(* (agent responses -> synthesis dispatch -> playback -> output device),   *)
(* the interrupt broadcast, the transcription stage and the IVR machine.   *)
(*                                                                         *)
(* The conversation runs on one asyncio event loop: the code between two   *)
(* await points runs without interleaving, so every action below is the    *)
(* piece of a coroutine from one suspension point to the next.  An         *)
(* `async with interrupt_lock` whose body holds no await (both uses in the *)
(* source) acquires, runs and releases within one such piece.              *)
(***************************************************************************)
EXTENDS Integers, Sequences, FiniteSets, TLC

\* ------------------------------------------------------------------ bounds
MaxTurnResponses == 3  \* agent responses dispatched, when turns follow each other
MaxResponses == 2      \* agent responses handed to the dispatch stage
MaxChunks == 2         \* chunks of one synthesis result
MaxBroadcasts == 1     \* broadcasts triggered by new speech
PlaybackChunks == 3    \* chunks of the synthesis result, when one message is played
MaxSounds == 1         \* sounds played by play_audio
MaxFragments == 3      \* transcription fragments delivered, of few messages
MaxRapidFragments == 2 \* transcription fragments delivered, of all messages and delays
MaxDigits == 3         \* DTMF digits received
MaxPeriods == 4        \* periods of the idle monitor
MaxPresenceChecks == 2  \* num_check_human_present_times
MaxPauses == 2         \* calls of set_check_for_idle_paused
MaxHeard == 3          \* transcriptions handed to IvrWorker.process
MaxRoutes == 2         \* inbound call configs of a TelephonyServer
MaxRequests == 2       \* requests the inbound routes receive
SoundChunks == 2       \* chunks of one sound

\* The text of every bot message, one letter per element.
MessageText == <<"a", "b", "c", "d">>

VARIABLES
    cfg,                   \* configuration read by the stages
    events,                \* every event the factory has created, by id
    registered,            \* history: the events put in the registry when created
    interruption_set,      \* ids of the interruption_event tokens that are set
    tracker_set,           \* ids of the agent_response_tracker signals that are set
    interruptible_events,  \* conversation.interruptible_events, the shared registry
    processed,             \* history: events their stage has finished with
    arq, arw,              \* AgentResponsesWorker: input queue, state
    faq, faw,              \* FillerAudioWorker: input queue, state
    srq, srw,              \* SynthesisResultsWorker: input queue, state
    speech,                \* send_speech_to_output invocations, by the id of their event
    outq, dev,             \* output device: input queue, _run_loop state
    audio_chunks,          \* the chunk events sent to the output device, and their AudioChunk
    transcript,            \* conversation.transcript.event_logs
    muted,                 \* the transcriber is muted
    is_terminated,         \* conversation.is_terminated
    term_pc,               \* position of terminate()
    broadcasts,            \* history: one record per broadcast_interrupt call
    now,                   \* time.time(), in ticks of a quarter of a second
    tw,                    \* TranscriptionsWorker: its fields
    is_human_speaking,     \* conversation.is_human_speaking
    current_transcription_is_interrupt,
    agent_q,               \* the agent inputs forwarded to the consumer
    tw_last,               \* history: the last call of TranscriptionsWorker.process
    ivr,                   \* IvrWorker: its fields, and the position of _run
    loop_task,             \* the _loop_message task of the message node
    dtmf_received,         \* history: the digits received, and whether they were queued
    idle,                  \* check_for_idle: its position and locals, and its periods
    startup,               \* start(): its position, and what it has started
    server,                \* TelephonyServer: its inbound routes, the requests handled
    last_action_timestamp  \* conversation.last_action_timestamp, in ticks

pipe_vars == <<cfg, events, registered, interruption_set, tracker_set, interruptible_events,
               processed, arq, arw, faq, faw, srq, srw, speech, outq, dev,
               audio_chunks, transcript, muted, is_terminated, term_pc, broadcasts>>

tw_vars == <<now, tw, is_human_speaking, current_transcription_is_interrupt,
             agent_q, tw_last>>

ivr_vars == <<ivr, loop_task, dtmf_received>>

\* The conversation's own tasks.
conv_vars == <<idle, startup, server, last_action_timestamp>>

xvars == <<tw_vars, ivr_vars, conv_vars>>

vars == <<pipe_vars, xvars>>

\* ------------------------------------------------------------ small helpers
Min(a, b) == IF a < b THEN a ELSE b

Range(s) == {s[i] : i \in DOMAIN s}

NoEvent == 0

\* conversation.initial_message_tracker, among the trackers (those of the
\* factory are named by the positive ids of their events)
initial_message_tracker == 0 - 1

\* Ids: the k-th agent response is event 3k-2, the event the dispatch stage
\* derives from it (a synthesis result or a filler audio) is event 3k-1, and
\* the k-th agent input is event 3k.
AgentResponses == {e \in DOMAIN events : events[e].kind = "agent_response"}

NextId == 3 * Cardinality(AgentResponses) + 1

AgentInputs == {e \in DOMAIN events : events[e].kind = "agent_input"}

NextInputId == 3 * Cardinality(AgentInputs) + 3

Derived(item) == item + 1

\* ------------------------------------------------- InterruptibleEvent
\* InterruptibleEvent.is_interrupted()
is_interrupted(evs, toks, e) == evs[e].is_interruptible /\ evs[e].tok \in toks

\* An interrupt() that sets the token of any event.
InterruptsAnyEvent(evs, e) == TRUE

\* InterruptibleEvent.interrupt(): whether the token gets set (its return value)
interrupt(evs, e) == evs[e].is_interruptible

\* An event as its constructor leaves it.  tok names the interruption_event it
\* holds, tracker the agent_response_tracker (0: the event has none).
Event(kind, payload, interruptible, tok, tracker) ==
    [kind |-> kind, payload |-> payload, is_interruptible |-> interruptible,
     tok |-> tok, tracker |-> tracker]

\* QueueingInterruptibleEventFactory.create_interruptible_agent_response_event:
\* a fresh token, and the given tracker or a fresh one ...
FactoryAgentResponseEvent(id, kind, payload, interruptible, tracker) ==
    Event(kind, payload, interruptible, id, IF tracker = 0 THEN id ELSE tracker)

\* A factory that does not put its events in the registry.
FactoryForgets(q, ids) == q

\* ... and interruptible_events.put_nowait(event).
FactoryRegisters(q, ids) == q \o ids

\* The factory has created the events ids.
Register(ids) ==
    /\ interruptible_events' = FactoryRegisters(interruptible_events, ids)
    /\ registered' = registered \cup
           (Range(interruptible_events') \ Range(interruptible_events))

\* The stage marks the event it has finished with as no longer interruptible.
Consumed(evs, e) == [evs EXCEPT ![e].is_interruptible = FALSE]

\* SynthesisResult.get_message_up_to(seconds), seconds counted in chunks of a
\* result of n chunks: the prefix in proportion to the time spoken.
get_message_up_to(k, n) ==
    SubSeq(MessageText, 1, Min(Len(MessageText), (k * Len(MessageText)) \div n))

\* ------------------------------------------------------------------- Init
\* The configuration of a run: what the conversation is constructed with
\* (synthesis enabled, mute_during_speech, the synthesizer's filler audios:
\* not configured, configured with none loaded, loaded), whether terminate()
\* is called, and how much its environment does (agent responses, chunks per
\* synthesis result, broadcasts on new speech, sounds played).
Configs ==
    [synthesis_enabled : BOOLEAN, mute_during_speech : BOOLEAN,
     filler : {"off", "empty", "on"}, terminates : BOOLEAN,
     responses : 0..MaxResponses \cup {MaxTurnResponses, 2 * MaxResponses, 2 * MaxPeriods},
     chunks : 1..PlaybackChunks,
     broadcasts : 0..MaxBroadcasts, sounds : 0..MaxSounds,
     interrupt_sensitivity : {"low", "high"}, simulate_interrupt : BOOLEAN,
     initial_message : BOOLEAN, fragments : 0..MaxFragments,
     words : {"few", "all", "echo"},
     ivr_dag : BOOLEAN, wait_delay : BOOLEAN, digits : 0..MaxDigits]

\* The conversation has no IVR machine.
NoIvr(c) == ~c.ivr_dag /\ ~c.wait_delay /\ c.digits = 0

\* Nobody is listened to: no fragment is delivered.
Deaf(c) ==
    /\ NoIvr(c)
    /\ c.interrupt_sensitivity = "low" /\ ~c.simulate_interrupt
    /\ ~c.initial_message /\ c.fragments = 0 /\ c.words = "few"

\* A conversation among agent, synthesizer and output device.
Dialogue(c) ==
    /\ Deaf(c)
    /\ c.mute_during_speech /\ ~c.terminates /\ c.sounds = 0
    /\ c.responses = MaxResponses /\ c.chunks = MaxChunks
    /\ c.broadcasts = MaxBroadcasts
    /\ c.synthesis_enabled \/ c.filler # "empty"

\* One bot message is played, and the conversation is terminated.
Playback(c) ==
    /\ Deaf(c)
    /\ c.synthesis_enabled /\ c.filler = "off" /\ c.terminates /\ c.sounds = 0
    /\ c.responses = 1 /\ c.chunks = PlaybackChunks
    /\ c.broadcasts = MaxBroadcasts

\* A sound is played next to one bot message.
Sound(c) ==
    /\ Deaf(c)
    /\ c.synthesis_enabled /\ c.mute_during_speech /\ c.filler = "off"
    /\ ~c.terminates /\ c.sounds = MaxSounds
    /\ c.responses = 1 /\ c.chunks = 1 /\ c.broadcasts = MaxBroadcasts

\* The turns of the bot follow each other, one chunk a message.
Turns(c) ==
    /\ Deaf(c)
    /\ c.synthesis_enabled /\ ~c.mute_during_speech /\ c.filler = "off"
    /\ ~c.terminates /\ c.sounds = 0
    /\ c.responses = MaxTurnResponses /\ c.chunks = 1
    /\ c.broadcasts = MaxBroadcasts

\* __init__: the stages, queues and flags of the conversation.
PipeConstructed ==
    /\ events = <<>>
    /\ registered = {}
    /\ interruption_set = {}
    /\ interruptible_events = <<>>
    /\ processed = {}
    /\ arq = <<>>
    /\ arw = [pc |-> "idle", item |-> NoEvent, cancel |-> FALSE,
              last_agent_response_tracker |-> 0, is_first_text_chunk |-> TRUE]
    /\ faq = <<>>
    /\ faw = [pc |-> "idle", item |-> NoEvent, started_event |-> 0]
    /\ srq = <<>>
    /\ srw = [pc |-> "idle", item |-> NoEvent, last_transcript_message |-> 0,
              cut_off_updates |-> {}]
    /\ speech = <<>>
    /\ outq = <<>>
    /\ dev = [pc |-> "idle", item |-> NoEvent]
    /\ audio_chunks = <<>>
    /\ transcript = <<>>
    /\ muted = FALSE
    /\ is_terminated = FALSE
    /\ term_pc = 0
    /\ broadcasts = <<>>

\* The conversation once start() has returned: without an initial message its
\* tracker is set.
PipeStart ==
    /\ PipeConstructed
    /\ tracker_set = IF cfg.initial_message THEN {} ELSE {initial_message_tracker}

\* TranscriptionsWorker.__init__, and the conversation's fields it works on.
TranscriptionsStart ==
    /\ now = 1
    /\ tw = [has_associated_ignored_utterance |-> FALSE,
             has_associated_unignored_utterance |-> FALSE,
             human_backchannels_buffer |-> <<>>,
             ignore_next_message |-> FALSE,
             last_transcription |-> <<"None">>, last_transcription_time |-> 0]
    /\ is_human_speaking = FALSE
    /\ current_transcription_is_interrupt = FALSE
    /\ agent_q = <<>>
    /\ tw_last = [n |-> 0, all_final |-> TRUE, none_duplicate |-> TRUE,
                  utterance_hit |-> FALSE]
    /\ last_action_timestamp = now

\* ------------------------------------------------------ broadcast_interrupt
\* The test of the drain loop: the event is not yet interrupted and interrupt()
\* succeeds on it.
DrainInterrupts(evs, toks, e) == ~is_interrupted(evs, toks, e) /\ interrupt(evs, e)

\* The drain loop: every event of the registry is taken out, in order; toks are
\* the tokens set so far and hit the events this broadcast has interrupted.
RECURSIVE Drain(_, _, _, _)
Drain(evs, q, toks, hit) ==
    IF q = <<>> THEN [toks |-> toks, hit |-> hit]
    ELSE LET e == Head(q) IN
         IF DrainInterrupts(evs, toks, e)
         THEN Drain(evs, Tail(q), toks \cup {evs[e].tok}, hit \cup {e})
         ELSE Drain(evs, Tail(q), toks, hit)

\* A drain loop that leaves the events it gets in the registry.
DrainKeeps(q) == q

\* What the drain loop leaves in the registry.
DrainLeaves(q) == <<>>

\* The events broadcast_interrupt is meant to stop: registered, interruptible,
\* not interrupted and not yet finished by their stage.
Pending(e) ==
    /\ e \in Range(interruptible_events)
    /\ events[e].is_interruptible
    /\ events[e].tok \notin interruption_set
    /\ e \notin processed

AwaitingPcs == {"create_speech", "wait_last"}

\* InterruptibleWorker.cancel_current_task() of the dispatch stage: the task
\* is cancelled when one is running and its event is interruptible.
CancelCurrentTask(w) ==
    IF w.pc \in AwaitingPcs /\ events[w.item].is_interruptible
    THEN [w EXCEPT !.cancel = TRUE] ELSE w

\* The body of broadcast_interrupt, called by src, on the registry and tokens;
\* num_interrupts > 0 is its return value.
BroadcastOutcome == Drain(events, interruptible_events, interruption_set, {})

BroadcastReturns == BroadcastOutcome.hit # {}

\* History: what a broadcast called by src finds and does.
BroadcastLog(src) ==
    [src |-> src,
     pending |-> {e \in DOMAIN events : Pending(e)},
     drained |-> interruptible_events,
     interruptible |-> {e \in Range(interruptible_events) : events[e].is_interruptible},
     interrupted |-> BroadcastOutcome.hit,
     queued |-> Range(outq),
     left |-> DrainLeaves(interruptible_events),
     ret |-> BroadcastReturns]

broadcast_interrupt(src) ==
    /\ interruption_set' = BroadcastOutcome.toks
    /\ interruptible_events' = DrainLeaves(interruptible_events)
    /\ arw' = CancelCurrentTask(arw)
    /\ broadcasts' = Append(broadcasts, BroadcastLog(src))

\* The transcription stage broadcasts on new speech.
SpeechInterrupt ==
    /\ Cardinality({i \in DOMAIN broadcasts : broadcasts[i].src = "speech"}) < cfg.broadcasts
    /\ broadcast_interrupt("speech")
    /\ UNCHANGED <<xvars, cfg, events, registered, tracker_set, processed, arq, faq, faw, srq, srw,
                   speech, outq, dev, audio_chunks, transcript, muted,
                   is_terminated, term_pc>>

\* ------------------------------------------------- agent responses arriving

\* The agent hands a response to the dispatch stage, as an event of the factory.
AgentRespond(payload, interruptible) ==
    /\ term_pc < 2
    /\ Cardinality(AgentResponses) < cfg.responses
    /\ payload = "filler_audio" => cfg.filler # "off"
    /\ events' = events @@
           (NextId :> FactoryAgentResponseEvent(NextId, "agent_response", payload,
                                                interruptible, 0))
    /\ Register(<<NextId>>)
    /\ arq' = Append(arq, NextId)
    /\ UNCHANGED <<xvars, cfg, interruption_set, tracker_set, processed, arw, faq, faw, srq,
                   srw, speech, outq, dev, audio_chunks, transcript, muted,
                   is_terminated, term_pc, broadcasts>>

\* send_single_message: the message, not interruptible and with the tracker
\* given (0: none), then an end of turn.
QueueSingleMessage(message_tracker) ==
    /\ term_pc < 2
    /\ Cardinality(AgentResponses) + 2 <= cfg.responses
    /\ events' = events @@
           (NextId :> FactoryAgentResponseEvent(NextId, "agent_response", "message",
                                                FALSE, message_tracker)) @@
           (NextId + 3 :> FactoryAgentResponseEvent(NextId + 3, "agent_response",
                                                    "end_of_turn", TRUE, 0))
    /\ Register(<<NextId, NextId + 3>>)
    /\ arq' = arq \o <<NextId, NextId + 3>>
    /\ UNCHANGED <<cfg, interruption_set, tracker_set, processed, arw, faq, faw, srq,
                   srw, speech, outq, dev, audio_chunks, transcript, muted,
                   term_pc, broadcasts>>

send_single_message(message_tracker) ==
    /\ QueueSingleMessage(message_tracker)
    /\ UNCHANGED is_terminated

\* check_for_idle asks whether the human is still there.
check_for_idle_prompt ==
    /\ send_single_message(0)
    /\ UNCHANGED xvars

\* ------------------------------------------------------ AgentResponsesWorker
\* The stage's loop takes the next event; an interrupted one is dropped.
ARW_Skip ==
    /\ arw.pc = "idle" /\ arq # <<>>
    /\ is_interrupted(events, interruption_set, Head(arq))
    /\ arq' = Tail(arq)
    /\ UNCHANGED <<xvars, cfg, events, interruption_set, tracker_set, interruptible_events, registered,
                   processed, arw, faq, faw, srq, srw, speech, outq, dev, audio_chunks,
                   transcript, muted, is_terminated, term_pc, broadcasts>>

ArwTakes(item) ==
    /\ arw.pc = "idle" /\ arq # <<>>
    /\ item = Head(arq)
    /\ ~is_interrupted(events, interruption_set, item)
    /\ arq' = Tail(arq)

\* process() has returned: the loop marks the event and is idle again.
ArwIdle(item, last, first) ==
    [pc |-> "idle", item |-> item, cancel |-> FALSE,
     last_agent_response_tracker |-> last, is_first_text_chunk |-> first]

\* A stage that marks the conversation terminated on a stop request although
\* synthesis is disabled.
ARW_DisabledStops ==
    \E item \in DOMAIN events :
        /\ ArwTakes(item)
        /\ ~cfg.synthesis_enabled
        /\ events' = Consumed(events, item)
        /\ processed' = processed \cup {item}
        /\ arw' = ArwIdle(item, arw.last_agent_response_tracker, arw.is_first_text_chunk)
        /\ is_terminated' = (is_terminated \/ events[item].payload = "stop")
        /\ UNCHANGED <<xvars, cfg, interruption_set, tracker_set, interruptible_events, registered, faq,
                       faw, srq, srw, speech, outq, dev, audio_chunks, transcript,
                       muted, term_pc, broadcasts>>

\* process() with synthesis disabled returns at once.
ARW_SynthesisDisabled ==
    \E item \in DOMAIN events :
        /\ ArwTakes(item)
        /\ ~cfg.synthesis_enabled
        /\ events' = Consumed(events, item)
        /\ processed' = processed \cup {item}
        /\ arw' = ArwIdle(item, arw.last_agent_response_tracker, arw.is_first_text_chunk)
        /\ UNCHANGED <<xvars, cfg, interruption_set, tracker_set, interruptible_events, registered, faq,
                       faw, srq, srw, speech, outq, dev, audio_chunks, transcript,
                       muted, is_terminated, term_pc, broadcasts>>

\* process() of a filler-audio request: send_filler_audio(), when the
\* synthesizer has filler audios, creates the filler event for the filler stage.
ARW_FillerAudio ==
    \E item \in DOMAIN events : \E interruptible \in BOOLEAN :
        /\ ArwTakes(item)
        /\ cfg.synthesis_enabled
        /\ events[item].payload = "filler_audio"
        /\ IF cfg.filler = "on"
           THEN /\ events' = Consumed(events, item) @@
                      (Derived(item) :> FactoryAgentResponseEvent(Derived(item), "filler",
                           "filler_audio", interruptible, events[item].tracker))
                /\ Register(<<Derived(item)>>)
                /\ faq' = Append(faq, Derived(item))
           ELSE /\ interruptible = FALSE
                /\ events' = Consumed(events, item)
                /\ UNCHANGED <<interruptible_events, registered, faq>>
        /\ processed' = processed \cup {item}
        /\ arw' = ArwIdle(item, arw.last_agent_response_tracker, arw.is_first_text_chunk)
        /\ UNCHANGED <<xvars, cfg, interruption_set, tracker_set, faw, srq, srw, speech, outq,
                       dev, audio_chunks, transcript, muted, is_terminated, term_pc,
                       broadcasts>>

\* A stop request that does not wait for the previous dispatch.
StopProceedsAtOnce(last) == TRUE

\* The stop request may go on: there is no previous dispatch, or its tracker is set.
StopMayProceed(last) == last = 0 \/ last \in tracker_set

\* process() of a stop request, to its end or to the wait for the last tracker.
ARW_Stop ==
    \E item \in DOMAIN events :
        /\ ArwTakes(item)
        /\ cfg.synthesis_enabled
        /\ events[item].payload = "stop"
        /\ IF StopMayProceed(arw.last_agent_response_tracker)
           THEN /\ tracker_set' = tracker_set \cup {events[item].tracker}
                /\ is_terminated' = TRUE
                /\ events' = Consumed(events, item)
                /\ processed' = processed \cup {item}
                /\ arw' = ArwIdle(item, arw.last_agent_response_tracker,
                                  arw.is_first_text_chunk)
           ELSE /\ arw' = [arw EXCEPT !.pc = "wait_last", !.item = item]
                /\ UNCHANGED <<tracker_set, is_terminated, events, processed>>
        /\ UNCHANGED <<xvars, cfg, interruption_set, interruptible_events, registered, faq, faw, srq, srw,
                       speech, outq, dev, audio_chunks, transcript, muted, term_pc,
                       broadcasts>>

\* The wait for the last dispatch's tracker ends.
ARW_StopResume ==
    /\ arw.pc = "wait_last" /\ ~arw.cancel
    /\ arw.last_agent_response_tracker \in tracker_set
    /\ tracker_set' = tracker_set \cup {events[arw.item].tracker}
    /\ is_terminated' = TRUE
    /\ events' = Consumed(events, arw.item)
    /\ processed' = processed \cup {arw.item}
    /\ arw' = ArwIdle(arw.item, arw.last_agent_response_tracker, arw.is_first_text_chunk)
    /\ UNCHANGED <<xvars, cfg, interruption_set, interruptible_events, registered, arq, faq, faw, srq, srw,
                   speech, outq, dev, audio_chunks, transcript, muted, term_pc,
                   broadcasts>>

\* FillerAudioWorker.interrupt_current_filler_audio(): whether the filler stage
\* holds an event and interrupt() succeeds on it.
InterruptsFiller ==
    cfg.filler # "off" /\ faw.item # NoEvent /\ interrupt(events, faw.item)

\* The start of process() for a message or an end of turn: the filler audio is
\* interrupted; wait_for_filler_audio_to_finish() then returns at once, its
\* test `not filler_audio_started_event.set()` being always true (and setting
\* the started event).
FillerInterrupted ==
    /\ interruption_set' = IF InterruptsFiller
                           THEN interruption_set \cup {events[faw.item].tok}
                           ELSE interruption_set
    /\ speech' = IF InterruptsFiller /\ faw.started_event # 0
                 THEN [speech EXCEPT ![faw.started_event].started = TRUE]
                 ELSE speech

\* process() of an end of turn: forwarded to the playback stage.
ARW_EndOfTurn ==
    \E item \in DOMAIN events :
        /\ ArwTakes(item)
        /\ cfg.synthesis_enabled
        /\ events[item].payload = "end_of_turn"
        /\ FillerInterrupted
        /\ events' = Consumed(events, item) @@
               (Derived(item) :> FactoryAgentResponseEvent(Derived(item), "synthesis",
                    "end_of_turn", events[item].is_interruptible, events[item].tracker))
        /\ Register(<<Derived(item)>>)
        /\ srq' = Append(srq, Derived(item))
        /\ processed' = processed \cup {item}
        /\ arw' = ArwIdle(item, arw.last_agent_response_tracker, TRUE)
        /\ UNCHANGED <<xvars, cfg, tracker_set, faq, faw, srw, outq, dev, audio_chunks,
                       transcript, muted, is_terminated, term_pc, broadcasts>>

\* process() of a message, up to the call of synthesizer.create_speech.
ARW_Message ==
    \E item \in DOMAIN events :
        /\ ArwTakes(item)
        /\ cfg.synthesis_enabled
        /\ events[item].payload = "message"
        /\ FillerInterrupted
        /\ arw' = [arw EXCEPT !.pc = "create_speech", !.item = item]
        /\ UNCHANGED <<xvars, cfg, events, tracker_set, interruptible_events, registered, processed, faq,
                       faw, srq, srw, outq, dev, audio_chunks, transcript, muted,
                       is_terminated, term_pc, broadcasts>>

\* create_speech has returned: the synthesis result goes to the playback stage.
ARW_CreateSpeechDone ==
    /\ arw.pc = "create_speech" /\ ~arw.cancel
    /\ events' = Consumed(events, arw.item) @@
           (Derived(arw.item) :> FactoryAgentResponseEvent(Derived(arw.item), "synthesis",
                "message", events[arw.item].is_interruptible, events[arw.item].tracker))
    /\ Register(<<Derived(arw.item)>>)
    /\ srq' = Append(srq, Derived(arw.item))
    /\ processed' = processed \cup {arw.item}
    /\ arw' = ArwIdle(arw.item, events[arw.item].tracker, FALSE)
    /\ UNCHANGED <<xvars, cfg, interruption_set, tracker_set, arq, faq, faw, srw, speech, outq,
                   dev, audio_chunks, transcript, muted, is_terminated, term_pc,
                   broadcasts>>

\* create_speech has returned None, or the synthesizer streams its input and
\* this is not the first text chunk: nothing goes to the playback stage, and
\* the message's tracker is kept as the last dispatch's all the same.
ARW_NoSynthesisResult ==
    /\ arw.pc = "create_speech" /\ ~arw.cancel
    /\ events' = Consumed(events, arw.item)
    /\ processed' = processed \cup {arw.item}
    /\ arw' = ArwIdle(arw.item, events[arw.item].tracker, FALSE)
    /\ UNCHANGED <<xvars, cfg, interruption_set, tracker_set, interruptible_events,
                   registered, arq, faq, faw, srq, srw, speech, outq, dev,
                   audio_chunks, transcript, muted, is_terminated, term_pc,
                   broadcasts>>

\* The task was cancelled while it waited: `except CancelledError: pass`.
ARW_Cancelled ==
    /\ arw.pc \in AwaitingPcs /\ arw.cancel
    /\ events' = Consumed(events, arw.item)
    /\ processed' = processed \cup {arw.item}
    /\ arw' = ArwIdle(arw.item, arw.last_agent_response_tracker, arw.is_first_text_chunk)
    /\ UNCHANGED <<xvars, cfg, interruption_set, tracker_set, interruptible_events, registered, arq, faq,
                   faw, srq, srw, speech, outq, dev, audio_chunks, transcript, muted,
                   is_terminated, term_pc, broadcasts>>

\* ------------------------------------------------------ send_speech_to_output
\* A transcript Message as SynthesisResultsWorker.process creates it.
BotMessage ==
    [sender |-> "bot", text |-> <<>>, is_final |-> FALSE, is_end_of_turn |-> FALSE,
     is_backchannel |-> FALSE]

\* The invocation for event e as it stands at the first `async for` step: the
\* transcriber muted when configured, no chunk sent yet.
NewSpeech(caller, n, msg) ==
    [pc |-> "chunks", caller |-> caller, n |-> n, idx |-> 0, sent |-> <<>>,
     interrupted_before_all_chunks_sent |-> FALSE, seconds_spoken |-> 0,
     transcript_message |-> msg, started |-> FALSE, cut_off |-> FALSE,
     message_sent |-> <<>>]

MuteTranscriber == IF cfg.mute_during_speech THEN TRUE ELSE muted

\* The last lines of send_speech_to_output unmute the transcriber when configured.
UnmuteTranscriber == IF cfg.mute_during_speech THEN FALSE ELSE muted

\* A call that never reports that it was cut off.
NeverCutOff(sp) == FALSE

\* cut_off: the loop stopped early or a chunk that was sent was interrupted.
CutOff(sp) ==
    \/ sp.interrupted_before_all_chunks_sent
    \/ \E c \in Range(sp.sent) : audio_chunks[c].state = "interrupted"

\* A playback stage that does not tell the agent of a message cut off.
AgentNotTold(updates, e, cut_off, message_sent) == updates

\* The playback stage calls agent.update_last_bot_message_on_cut_off with the
\* message sent when the call for event e was cut off.  History: updates are
\* the calls made so far.
CutOffUpdates(updates, e, cut_off, message_sent) ==
    IF cut_off THEN updates \cup {[item |-> e, message |-> message_sent]} ELSE updates

\* send_speech_to_output returns, and its caller runs on to its next await:
\* the tracker is set, and the stage is idle again.
Return(e, sp) ==
    LET cut_off == CutOff(sp)
        m == sp.transcript_message
        text == IF m # 0 /\ ~cut_off THEN MessageText
                ELSE IF m # 0 THEN transcript[m].text ELSE <<>>
    IN  /\ transcript' = IF m # 0
                         THEN [transcript EXCEPT ![m].text = text, ![m].is_final = ~cut_off]
                         ELSE transcript
        /\ muted' = UnmuteTranscriber
        /\ speech' = [speech EXCEPT ![e] =
               [sp EXCEPT !.pc = "returned", !.cut_off = cut_off,
                          !.message_sent = IF m # 0 /\ cut_off THEN text ELSE MessageText]]
        /\ tracker_set' = tracker_set \cup {events[e].tracker}
        /\ processed' = processed \cup {e}
        /\ IF sp.caller = "synthesis"
           THEN /\ srw' = [pc |-> "idle", item |-> e, last_transcript_message |-> m,
                            cut_off_updates |->
                                CutOffUpdates(srw.cut_off_updates, e, cut_off,
                                              IF m # 0 /\ cut_off THEN text ELSE MessageText)]
                /\ UNCHANGED <<faw, events>>
           ELSE /\ faw' = [faw EXCEPT !.pc = "idle"]
                /\ events' = Consumed(events, e)
                /\ UNCHANGED srw

\* The chunk loop is over: wait for the last chunk sent, if it is not handled
\* yet, and return.
Settle(e, sp) ==
    IF sp.sent # <<>> /\ ~audio_chunks[sp.sent[Len(sp.sent)]].processed_event
    THEN /\ speech' = [speech EXCEPT ![e] = [sp EXCEPT !.pc = "wait"]]
         /\ UNCHANGED <<transcript, muted, tracker_set, processed, srw, faw, events>>
    ELSE Return(e, sp)

\* A sender that does not look at the token before it sends a chunk.
StopEventNeverSet(e) == FALSE

\* The test made on every chunk the generator yields, before it is sent.
StopEventIsSet(e) == events[e].tok \in interruption_set

\* InterruptibleEvent(payload=AudioChunk(...), is_interruptible, interruption_event):
\* an event made without the factory, with the AudioChunk it carries (chunk_idx
\* and call name the closure of its callbacks; call 0: it has none).  History:
\* set_at_send and set_at_dequeue record whether the token was set when the
\* event was handed to the output device and when the device took it.
ChunkEvent(interruptible, tok, idx, call) ==
    [is_interruptible |-> interruptible, tok |-> tok, state |-> "unplayed",
     chunk_idx |-> idx, call |-> call, on_play |-> 0, on_interrupt |-> 0,
     processed_event |-> FALSE,
     set_at_send |-> tok \in interruption_set, set_at_dequeue |-> FALSE,
     on_play_raised |-> FALSE]

\* A sender that hands the chunk over without looking at the token, as one
\* would that had looked before a broadcast ran.
SS_SendChunkUnchecked(e) ==
    /\ speech[e].pc = "chunks" /\ speech[e].idx < speech[e].n
    /\ audio_chunks' = Append(audio_chunks, ChunkEvent(TRUE, events[e].tok, speech[e].idx, e))
    /\ outq' = Append(outq, Len(audio_chunks) + 1)
    /\ speech' = [speech EXCEPT ![e].idx = @ + 1,
                                ![e].sent = Append(@, Len(audio_chunks) + 1)]
    /\ UNCHANGED <<xvars, cfg, events, interruption_set, tracker_set, interruptible_events,
                   registered, processed, arq, arw, faq, faw, srq, srw, dev, transcript,
                   muted, is_terminated, term_pc, broadcasts>>

\* The generator yields a chunk and the token is not set: the chunk is wrapped
\* in an event of its own (not one of the factory) that shares the token, and is
\* handed to the output device.  The test, the acquisition of interrupt_lock
\* (never held across a suspension, so acquired at once) and the hand-over
\* have no suspension point between them.
SS_SendChunk(e) ==
    /\ speech[e].pc = "chunks" /\ speech[e].idx < speech[e].n
    /\ ~StopEventIsSet(e)
    /\ audio_chunks' = Append(audio_chunks, ChunkEvent(TRUE, events[e].tok, speech[e].idx, e))
    /\ outq' = Append(outq, Len(audio_chunks) + 1)
    /\ speech' = [speech EXCEPT ![e].idx = @ + 1,
                                ![e].sent = Append(@, Len(audio_chunks) + 1)]
    /\ UNCHANGED <<xvars, cfg, events, interruption_set, tracker_set, interruptible_events, registered, processed,
                   arq, arw, faq, faw, srq, srw, dev, transcript, muted, is_terminated,
                   term_pc, broadcasts>>

\* The generator yields a chunk and the token is set: the loop is left.
SS_Interrupted(e) ==
    /\ speech[e].pc = "chunks" /\ speech[e].idx < speech[e].n
    /\ StopEventIsSet(e)
    /\ Settle(e, [speech[e] EXCEPT !.interrupted_before_all_chunks_sent = TRUE])
    /\ UNCHANGED <<xvars, cfg, interruption_set, interruptible_events, registered, arq, arw, faq, srq,
                   outq, dev, audio_chunks, is_terminated, term_pc, broadcasts>>

\* The generator is exhausted.
SS_EndOfChunks(e) ==
    /\ speech[e].pc = "chunks" /\ speech[e].idx = speech[e].n
    /\ Settle(e, speech[e])
    /\ UNCHANGED <<xvars, cfg, interruption_set, interruptible_events, registered, arq, arw, faq, srq,
                   outq, dev, audio_chunks, is_terminated, term_pc, broadcasts>>

\* The wait for the last chunk's processed_event ends.
SS_LastProcessed(e) ==
    /\ speech[e].pc = "wait"
    /\ audio_chunks[speech[e].sent[Len(speech[e].sent)]].processed_event
    /\ Return(e, speech[e])
    /\ UNCHANGED <<xvars, cfg, interruption_set, interruptible_events, registered, arq, arw, faq, srq,
                   outq, dev, audio_chunks, is_terminated, term_pc, broadcasts>>

\* play_audio: every chunk of the sound goes to the output device in an event
\* that is not interruptible and has no callbacks.
PlaySound ==
    /\ term_pc < 2
    /\ Cardinality({c \in DOMAIN audio_chunks : audio_chunks[c].call = 0})
           < cfg.sounds * SoundChunks
    /\ audio_chunks' = audio_chunks \o
           [i \in 1..SoundChunks |-> ChunkEvent(FALSE, 0, i - 1, 0)]
    /\ outq' = outq \o [i \in 1..SoundChunks |-> Len(audio_chunks) + i]
    /\ UNCHANGED <<cfg, events, interruption_set, tracker_set, interruptible_events,
                   registered, processed, arq, arw, faq, faw, srq, srw, speech, dev,
                   transcript, muted, is_terminated, term_pc, broadcasts>>

play_audio ==
    /\ PlaySound
    /\ UNCHANGED xvars

\* ---------------------------------------------------- SynthesisResultsWorker
\* process() of an end of turn.  The stage is a plain queue worker: it takes
\* every event, interrupted or not, and leaves the event's flags alone.
SRW_EndOfTurn ==
    /\ srw.pc = "idle" /\ srq # <<>>
    /\ events[Head(srq)].payload = "end_of_turn"
    /\ srq' = Tail(srq)
    /\ transcript' = IF srw.last_transcript_message # 0
                     THEN [transcript EXCEPT ![srw.last_transcript_message].is_end_of_turn = TRUE]
                     ELSE transcript
    /\ tracker_set' = tracker_set \cup {events[Head(srq)].tracker}
    /\ processed' = processed \cup {Head(srq)}
    /\ srw' = [srw EXCEPT !.item = Head(srq)]
    /\ UNCHANGED <<xvars, cfg, events, interruption_set, interruptible_events, registered, arq, arw, faq,
                   faw, speech, outq, dev, audio_chunks, muted, is_terminated, term_pc,
                   broadcasts>>

\* process() of a message, up to the first step of the chunk loop.
SRW_Message ==
    \E n \in 1..cfg.chunks :
        /\ srw.pc = "idle" /\ srq # <<>>
        /\ events[Head(srq)].payload = "message"
        /\ srq' = Tail(srq)
        /\ transcript' = Append(transcript, BotMessage)
        /\ muted' = MuteTranscriber
        /\ speech' = speech @@ (Head(srq) :> NewSpeech("synthesis", n, Len(transcript) + 1))
        /\ srw' = [srw EXCEPT !.pc = "speaking", !.item = Head(srq)]
        /\ UNCHANGED <<xvars, cfg, events, interruption_set, tracker_set, interruptible_events, registered,
                       processed, arq, arw, faq, faw, outq, dev, audio_chunks,
                       is_terminated, term_pc, broadcasts>>

\* --------------------------------------------------------- FillerAudioWorker
FAW_Skip ==
    /\ faw.pc = "idle" /\ faq # <<>>
    /\ is_interrupted(events, interruption_set, Head(faq))
    /\ faq' = Tail(faq)
    /\ UNCHANGED <<xvars, cfg, events, interruption_set, tracker_set, interruptible_events, registered,
                   processed, arq, arw, faw, srq, srw, speech, outq, dev, audio_chunks,
                   transcript, muted, is_terminated, term_pc, broadcasts>>

\* process() up to the sleep of silence_threshold_seconds.
FAW_Start ==
    /\ faw.pc = "idle" /\ faq # <<>>
    /\ ~is_interrupted(events, interruption_set, Head(faq))
    /\ faq' = Tail(faq)
    /\ faw' = [faw EXCEPT !.pc = "sleep", !.item = Head(faq)]
    /\ UNCHANGED <<xvars, cfg, events, interruption_set, tracker_set, interruptible_events, registered,
                   processed, arq, arw, srq, srw, speech, outq, dev, audio_chunks,
                   transcript, muted, is_terminated, term_pc, broadcasts>>

\* The sleep is over: a fresh started event, and the filler audio is spoken.
FAW_Speak ==
    \E n \in 1..cfg.chunks :
        /\ faw.pc = "sleep"
        /\ faw' = [faw EXCEPT !.pc = "speaking", !.started_event = faw.item]
        /\ muted' = MuteTranscriber
        /\ speech' = speech @@ (faw.item :> NewSpeech("filler", n, 0))
        /\ UNCHANGED <<xvars, cfg, events, interruption_set, tracker_set, interruptible_events, registered,
                       processed, arq, arw, faq, srq, srw, outq, dev, audio_chunks,
                       transcript, is_terminated, term_pc, broadcasts>>

\* ------------------------------------------------ LiveKitOutputDevice._run_loop
\* The item taken is interrupted: on_interrupt(), then the state.
Dev_Interrupted ==
    /\ dev.pc = "idle" /\ outq # <<>>
    /\ is_interrupted(audio_chunks, interruption_set, Head(outq))
    /\ outq' = Tail(outq)
    /\ dev' = [dev EXCEPT !.item = Head(outq)]
    /\ audio_chunks' = [audio_chunks EXCEPT
           ![Head(outq)].set_at_dequeue = audio_chunks[Head(outq)].tok \in interruption_set,
           ![Head(outq)].on_interrupt = @ + 1,
           ![Head(outq)].processed_event = IF audio_chunks[Head(outq)].call # 0 THEN TRUE ELSE @,
           ![Head(outq)].state = "interrupted"]
    /\ UNCHANGED <<xvars, cfg, events, interruption_set, tracker_set, interruptible_events, registered,
                   processed, arq, arw, faq, faw, srq, srw, speech, transcript, muted,
                   is_terminated, term_pc, broadcasts>>

\* The item taken is not interrupted: play() is awaited.
Dev_Play ==
    /\ dev.pc = "idle" /\ outq # <<>>
    /\ ~is_interrupted(audio_chunks, interruption_set, Head(outq))
    /\ outq' = Tail(outq)
    /\ dev' = [pc |-> "playing", item |-> Head(outq)]
    /\ audio_chunks' = [audio_chunks EXCEPT
           ![Head(outq)].set_at_dequeue = audio_chunks[Head(outq)].tok \in interruption_set]
    /\ UNCHANGED <<xvars, cfg, events, interruption_set, tracker_set, interruptible_events, registered,
                   processed, arq, arw, faq, faw, srq, srw, speech,
                   transcript, muted, is_terminated, term_pc, broadcasts>>

\* The state the device gives a chunk it has played.
PlayedState == "played"

\* A loop that looks at the token once more after play() and treats a chunk
\* stopped in the meantime as interrupted as well.
Dev_PlayedThenInterrupted ==
    /\ dev.pc = "playing"
    /\ LET c == dev.item
           stopped == is_interrupted(audio_chunks, interruption_set, c)
       IN  audio_chunks' = [audio_chunks EXCEPT
               ![c].on_play = @ + 1,
               ![c].on_interrupt = IF stopped THEN @ + 1 ELSE @,
               ![c].processed_event = IF audio_chunks[c].call # 0 THEN TRUE ELSE @,
               ![c].state = IF stopped THEN "interrupted" ELSE PlayedState]
    /\ dev' = [dev EXCEPT !.pc = "idle"]
    /\ UNCHANGED <<xvars, cfg, events, interruption_set, tracker_set, interruptible_events,
                   registered, processed, arq, arw, faq, faw, srq, srw, speech, outq,
                   transcript, muted, is_terminated, term_pc, broadcasts>>

\* play() has returned: on_play() (the closure of send_speech_to_output, when
\* the chunk has one), then the state, and the event is no longer interruptible.
Dev_Played ==
    /\ dev.pc = "playing"
    /\ LET c == dev.item
           e == audio_chunks[c].call
           spoken == speech[e].seconds_spoken + 1
           m == speech[e].transcript_message
       IN  /\ audio_chunks' = [audio_chunks EXCEPT
                  ![c].on_play = @ + 1,
                  ![c].processed_event = IF e # 0 THEN TRUE ELSE @,
                  ![c].state = PlayedState]
           /\ speech' = IF e = 0 THEN speech
                        ELSE [speech EXCEPT
                                 ![e].seconds_spoken = spoken,
                                 ![e].started = IF audio_chunks[c].chunk_idx = 0
                                                   /\ speech[e].caller = "filler"
                                                THEN TRUE ELSE @]
           /\ transcript' = IF e # 0 /\ m # 0
                            THEN [transcript EXCEPT
                                     ![m].text = get_message_up_to(spoken, speech[e].n)]
                            ELSE transcript
           /\ last_action_timestamp' = IF e # 0 THEN now ELSE last_action_timestamp
    /\ dev' = [dev EXCEPT !.pc = "idle"]
    /\ UNCHANGED <<tw_vars, ivr_vars, idle, startup, server, cfg, events, interruption_set, tracker_set,
                   interruptible_events, registered, processed,
                   arq, arw, faq, faw, srq, srw, outq, muted, is_terminated, term_pc,
                   broadcasts>>

\* The places of _on_play() where a call can raise: _track_first_chunk, for the
\* first chunk, and get_message_up_to, when there is a transcript message.
OnPlayRaisesAt(c) ==
    IF audio_chunks[c].call = 0 THEN {}
    ELSE {at \in {"first_chunk"} : audio_chunks[c].chunk_idx = 0}
         \cup {at \in {"get_message_up_to"} :
                   speech[audio_chunks[c].call].transcript_message # 0}

\* An error of on_play() that leaves _run_loop: the task of the loop ends.
Dev_OnPlayErrorEscapes(at) ==
    /\ dev.pc = "playing"
    /\ at \in OnPlayRaisesAt(dev.item)
    /\ audio_chunks' = [audio_chunks EXCEPT ![dev.item].on_play = @ + 1,
                                            ![dev.item].on_play_raised = TRUE]
    /\ dev' = [dev EXCEPT !.pc = "failed"]
    /\ UNCHANGED <<xvars, cfg, events, interruption_set, tracker_set, interruptible_events,
                   registered, processed, arq, arw, faq, faw, srq, srw, speech, outq,
                   transcript, muted, is_terminated, term_pc, broadcasts>>

\* play() has returned and on_play() raises at the given place: the statements
\* of _on_play() before it have run, its except clause logs the error (1294-1295)
\* and processed_event is set (1297); the loop then sets the state (50).
Dev_PlayedOnPlayRaises(at) ==
    /\ dev.pc = "playing"
    /\ at \in OnPlayRaisesAt(dev.item)
    /\ LET c == dev.item
           e == audio_chunks[c].call
       IN  /\ audio_chunks' = [audio_chunks EXCEPT
                  ![c].on_play = @ + 1,
                  ![c].on_play_raised = TRUE,
                  ![c].processed_event = TRUE,
                  ![c].state = PlayedState]
           /\ speech' = [speech EXCEPT
                  ![e].seconds_spoken = IF at = "get_message_up_to" THEN @ + 1 ELSE @,
                  ![e].started = IF audio_chunks[c].chunk_idx = 0
                                    /\ speech[e].caller = "filler"
                                 THEN TRUE ELSE @]
           /\ last_action_timestamp' =
                  IF at = "get_message_up_to" THEN now ELSE last_action_timestamp
    /\ dev' = [dev EXCEPT !.pc = "idle"]
    /\ UNCHANGED <<tw_vars, ivr_vars, idle, startup, server, cfg, events, interruption_set, tracker_set,
                   interruptible_events, registered, processed, arq, arw, faq, faw, srq, srw,
                   outq, transcript, muted, is_terminated, term_pc, broadcasts>>

\* ------------------------------------------------------------------ terminate
\* terminate(): mark_terminated(), then the broadcast.
Terminate_Start ==
    /\ term_pc = 0 /\ cfg.terminates
    /\ is_terminated' = TRUE
    /\ broadcast_interrupt("terminate")
    /\ term_pc' = 1
    /\ UNCHANGED <<xvars, cfg, events, registered, tracker_set, processed, arq, faq, faw, srq, srw, speech,
                   outq, dev, audio_chunks, transcript, muted>>

\* ... the agent and the output device are terminated: the device's loop is
\* cancelled where it waits.
Terminate_OutputDevice ==
    /\ term_pc = 1
    /\ dev' = [dev EXCEPT !.pc = "terminated"]
    /\ term_pc' = 2
    /\ UNCHANGED <<xvars, cfg, events, interruption_set, tracker_set, interruptible_events, registered,
                   processed, arq, arw, faq, faw, srq, srw, speech, outq, audio_chunks,
                   transcript, muted, is_terminated, broadcasts>>

\* ... the dispatch stage is terminated: a process() that waits is cancelled
\* and `except CancelledError: pass` ends it.
Terminate_AgentResponsesWorker ==
    /\ term_pc = 2
    /\ arw' = [arw EXCEPT !.pc = "terminated"]
    /\ processed' = IF arw.pc \in AwaitingPcs THEN processed \cup {arw.item} ELSE processed
    /\ term_pc' = 3
    /\ UNCHANGED <<xvars, cfg, events, interruption_set, tracker_set, interruptible_events, registered,
                   arq, faq, faw, srq, srw, speech, outq, dev, audio_chunks, transcript,
                   muted, is_terminated, broadcasts>>

\* A stage that is inside send_speech_to_output is cancelled there: the
\* CancelledError leaves the call at its await and is swallowed by process().
CancelSpeech(sp, w) ==
    IF w.pc = "speaking" THEN [sp EXCEPT ![w.item].pc = "cancelled"] ELSE sp

\* ... the playback stage is terminated.
Terminate_SynthesisResultsWorker ==
    /\ term_pc = 3
    /\ speech' = CancelSpeech(speech, srw)
    /\ processed' = IF srw.pc = "speaking" THEN processed \cup {srw.item} ELSE processed
    /\ srw' = [srw EXCEPT !.pc = "terminated"]
    /\ term_pc' = 4
    /\ UNCHANGED <<xvars, cfg, events, interruption_set, tracker_set, interruptible_events, registered,
                   arq, arw, faq, faw, srq, outq, dev, audio_chunks, transcript, muted,
                   is_terminated, broadcasts>>

\* ... the filler stage is terminated, when there is one.
Terminate_FillerAudioWorker ==
    /\ term_pc = 4
    /\ speech' = CancelSpeech(speech, faw)
    /\ processed' = IF faw.pc \in {"sleep", "speaking"}
                    THEN processed \cup {faw.item} ELSE processed
    /\ faw' = [faw EXCEPT !.pc = "terminated"]
    /\ term_pc' = 5
    /\ UNCHANGED <<xvars, cfg, events, interruption_set, tracker_set, interruptible_events, registered,
                   arq, arw, faq, srq, srw, outq, dev, audio_chunks, transcript, muted,
                   is_terminated, broadcasts>>

\* ------------------------------------------------------------------ IvrWorker
\* A node of a DAG; a terminal node is the one that is final.
Node(type, link_type, links, wait_delay) ==
    [type |-> type, link_type |-> link_type, links |-> links,
     wait_delay |-> wait_delay, is_final |-> type = "terminal"]

Link(message, next) == [message |-> message, next |-> next]

\* The DAGs the machine is run on.
\*   menu: a message node A that takes DTMF, with the link "1" to the
\*     terminal node B;
\*   tour: a play node P, a hold node H and a message node M that takes DTMF,
\*     each with two links, and the terminal nodes B and C;
\*   menus: two message nodes that take DTMF, A with the link "1" to M and
\*     M with the link "1" to the terminal node B;
\*   voice: a message node V that takes spoken commands, with the link
\*     "sales" to the terminal node B and the link "agent" to the terminal
\*     node C;
\*   and three malformed ones: a hold node without links, a message node
\*   whose link type is neither COMMAND nor DTMF, a node of another type.
Dags ==
    [menu |->
        [start |-> "A",
         nodes |-> [A |-> Node("message", "dtmf", <<Link("1", "B")>>, cfg.wait_delay),
                    B |-> Node("terminal", "none", <<>>, FALSE)]],
     tour |->
        [start |-> "P",
         nodes |-> [P |-> Node("play", "none", <<Link("", "H"), Link("", "C")>>, FALSE),
                    H |-> Node("hold", "none", <<Link("", "M"), Link("", "C")>>, FALSE),
                    M |-> Node("message", "dtmf", <<Link("9", "C"), Link("1", "B")>>,
                              FALSE),
                    B |-> Node("terminal", "none", <<>>, cfg.wait_delay),
                    C |-> Node("terminal", "none", <<>>, FALSE)]],
     menus |->
        [start |-> "A",
         nodes |-> [A |-> Node("message", "dtmf", <<Link("1", "M")>>, FALSE),
                    M |-> Node("message", "dtmf", <<Link("1", "B")>>, FALSE),
                    B |-> Node("terminal", "none", <<>>, FALSE)]],
     voice |->
        [start |-> "V",
         nodes |-> [V |-> Node("message", "command",
                              <<Link("sales", "B"), Link("agent", "C")>>, FALSE),
                    B |-> Node("terminal", "none", <<>>, FALSE),
                    C |-> Node("terminal", "none", <<>>, FALSE)]],
     hold_without_links |->
        [start |-> "H",
         nodes |-> [H |-> Node("hold", "none", <<>>, FALSE)]],
     unknown_link_type |->
        [start |-> "M",
         nodes |-> [M |-> Node("message", "other", <<Link("1", "B")>>, FALSE),
                    B |-> Node("terminal", "none", <<>>, FALSE)]],
     unsupported_node |->
        [start |-> "X",
         nodes |-> [X |-> Node("other", "none", <<Link("", "B")>>, FALSE),
                    B |-> Node("terminal", "none", <<>>, FALSE)]]]

\* self.dag
Dag == Dags[ivr.dag]

\* The digits that may be received.
Digits == {"1", "9", "A"}

\* str.lower()
Lower(d) == IF d = "A" THEN "a" ELSE d

\* IvrWorker.__init__ and start(): the cursor on the start node, the _run
\* task created; "off" when the conversation has no IVR machine.
IvrWorker(dag) ==
    [pc |-> IF cfg.ivr_dag THEN "top" ELSE "off",
     dag |-> dag, current_node_id |-> Dags[dag].start,
     dtmf_queue |-> <<>>, dtmf_queue_is_none |-> TRUE,
     listen_queue |-> <<>>, listen_queue_is_none |-> TRUE,
     input_queue |-> <<>>, \* the events the transcription stage has forwarded
     heard |-> <<>>,       \* history: the transcriptions process() was given
     command |-> "none", tracker |-> 0, finished_event |-> FALSE]

IvrStartOn(dags) ==
    /\ ivr \in {IvrWorker(dag) : dag \in dags}
    /\ loop_task = [pc |-> "none", cancel |-> FALSE, tracker |-> 0]
    /\ dtmf_received = <<>>

IvrStart == IvrStartOn({"menu"})

CurrentNode == Dag.nodes[ivr.current_node_id]

\* A receive_dtmf that keeps the digit for the next node when there is no
\* queue.
receive_dtmf_buffered(digit) ==
    /\ cfg.ivr_dag
    /\ Len(dtmf_received) < cfg.digits
    /\ ivr' = [ivr EXCEPT !.dtmf_queue = Append(@, digit),
                          !.dtmf_queue_is_none = FALSE]
    /\ dtmf_received' = Append(dtmf_received,
           [digit |-> digit, queued |-> TRUE, node |-> ivr.current_node_id])
    /\ UNCHANGED <<pipe_vars, tw_vars, conv_vars, loop_task>>

\* receive_dtmf: the digit is queued when there is a queue, and dropped when
\* there is none.
receive_dtmf(digit) ==
    /\ cfg.ivr_dag
    /\ Len(dtmf_received) < cfg.digits
    /\ ivr' = IF ivr.dtmf_queue_is_none THEN ivr
              ELSE [ivr EXCEPT !.dtmf_queue = Append(@, digit)]
    /\ dtmf_received' = Append(dtmf_received,
           [digit |-> digit, queued |-> ~ivr.dtmf_queue_is_none,
            node |-> ivr.current_node_id])
    /\ UNCHANGED <<pipe_vars, tw_vars, conv_vars, loop_task>>

\* _run, at the top of its loop, at a node with a wait_delay: it sleeps.
IVR_WaitDelay ==
    /\ ivr.pc = "top" /\ CurrentNode.wait_delay
    /\ ivr' = [ivr EXCEPT !.pc = "wait_delay"]
    /\ UNCHANGED <<pipe_vars, tw_vars, conv_vars, loop_task, dtmf_received>>

\* _run is at the node, its wait_delay over if it has one.
AtNode == (ivr.pc = "top" /\ ~CurrentNode.wait_delay) \/ ivr.pc = "wait_delay"

\* A machine that takes every node for a final one.
IVR_FinalAnywhere ==
    /\ AtNode
    /\ ivr' = [ivr EXCEPT !.pc = "finished", !.finished_event = TRUE]
    /\ UNCHANGED <<pipe_vars, tw_vars, conv_vars, loop_task, dtmf_received>>

\* _run at a final node: the loop is left and the finished event is set.
IVR_Final ==
    /\ AtNode /\ CurrentNode.is_final
    /\ ivr' = [ivr EXCEPT !.pc = "finished", !.finished_event = TRUE]
    /\ UNCHANGED <<pipe_vars, tw_vars, conv_vars, loop_task, dtmf_received>>

\* _run at a message node with DTMF links: the task that repeats the message
\* is created, and wait_for_dtmf sets a new queue and waits on it.
IVR_MessageNode ==
    /\ AtNode /\ ~CurrentNode.is_final
    /\ CurrentNode.type = "message" /\ CurrentNode.link_type = "dtmf"
    /\ loop_task' = [pc |-> "created", cancel |-> FALSE, tracker |-> 0]
    /\ ivr' = [ivr EXCEPT !.pc = "wait_for_dtmf", !.dtmf_queue = <<>>,
                          !.dtmf_queue_is_none = FALSE]
    /\ UNCHANGED <<pipe_vars, tw_vars, conv_vars, dtmf_received>>

\* A test that takes every digit for the command.
DtmfMatchesAny(command, digit) == TRUE

\* The test of wait_for_dtmf on a digit, for one of the commands.
DtmfMatches(command, digit) == Lower(command) = Lower(digit)

\* The commands of the node: the messages of its links.
AvailableCommands(node) == {node.links[i].message : i \in DOMAIN node.links}

\* wait_for_dtmf takes a digit that matches no command: it waits for the next.
IVR_DtmfIgnored ==
    /\ ivr.pc = "wait_for_dtmf" /\ ivr.dtmf_queue # <<>>
    /\ loop_task.pc # "created"
    /\ \A command \in AvailableCommands(CurrentNode) :
           ~DtmfMatches(command, Head(ivr.dtmf_queue))
    /\ ivr' = [ivr EXCEPT !.dtmf_queue = Tail(@)]
    /\ UNCHANGED <<pipe_vars, tw_vars, conv_vars, loop_task, dtmf_received>>

\* What the human may be transcribed as saying.
Heard == {"Sales", "sails", "salt", "an agent"}

\* str.lower()
LowerText(text) == IF text = "Sales" THEN "sales" ELSE text

\* fuzz.partial_ratio of a command and a received message, both in lower
\* case: 100 when the shorter is part of the longer, else the best ratio of
\* matching characters, in percent, of the shorter and a stretch of the longer.
partial_ratio(command, received) ==
    CASE command = "sales" /\ received = "sales" -> 100
      [] command = "sales" /\ received = "sails" -> 80
      [] command = "sales" /\ received = "salt" -> 75
      [] command = "sales" /\ received = "an agent" -> 40
      [] command = "agent" /\ received = "sales" -> 44
      [] command = "agent" /\ received = "sails" -> 22
      [] command = "agent" /\ received = "salt" -> 25
      [] command = "agent" /\ received = "an agent" -> 100

\* dag.fuzz_threshold or 80, of a DAG without fuzz_threshold.
fuzz_threshold == 80

\* IvrWorker.process: a final transcription is put on the listen queue when
\* there is one; a non-final one, and any one without a queue, is dropped.
Processed(worker, message, is_final) ==
    LET queued == is_final /\ ~worker.listen_queue_is_none
    IN  [worker EXCEPT
            !.listen_queue = IF queued THEN Append(@, message) ELSE @,
            !.heard = Append(@, [message |-> message, is_final |-> is_final,
                                 queued |-> queued])]

\* process() is called with a transcription.
IVR_Process(message, is_final) ==
    /\ cfg.ivr_dag
    /\ Len(ivr.heard) < MaxHeard
    /\ ivr' = Processed(ivr, message, is_final)
    /\ UNCHANGED <<pipe_vars, tw_vars, conv_vars, loop_task, dtmf_received>>

\* The worker's loop takes the next event the transcription stage has
\* forwarded: an interrupted one is dropped, any other goes to process().
IVR_Consume ==
    /\ ivr.input_queue # <<>>
    /\ ivr' = LET item == Head(ivr.input_queue)
                  rest == [ivr EXCEPT !.input_queue = Tail(@)]
              IN  IF is_interrupted(events, interruption_set, item.event) THEN rest
                  ELSE Processed(rest, item.message, TRUE)
    /\ UNCHANGED <<pipe_vars, tw_vars, conv_vars, loop_task, dtmf_received>>

\* _run at a message node with COMMAND links: the task that repeats the
\* message is created, and wait_for_command sets a new queue and waits on it.
IVR_CommandNode ==
    /\ AtNode /\ ~CurrentNode.is_final
    /\ CurrentNode.type = "message" /\ CurrentNode.link_type = "command"
    /\ loop_task' = [pc |-> "created", cancel |-> FALSE, tracker |-> 0]
    /\ ivr' = [ivr EXCEPT !.pc = "wait_for_command", !.listen_queue = <<>>,
                          !.listen_queue_is_none = FALSE]
    /\ UNCHANGED <<pipe_vars, tw_vars, conv_vars, dtmf_received>>

\* A matcher that takes every message for every command.
EveryLinkMatches(node, received) == node.links

\* The links whose command the received message matches, in the order of the
\* node's links: wait_for_command returns the command of the first.
MatchingLinks(node, received) ==
    SelectSeq(node.links,
              LAMBDA link : partial_ratio(LowerText(link.message), LowerText(received))
                                >= fuzz_threshold)

\* wait_for_command takes a message that matches no command: it waits for
\* the next.
IVR_CommandUnmatched ==
    /\ ivr.pc = "wait_for_command" /\ ivr.listen_queue # <<>>
    /\ loop_task.pc # "created"
    /\ MatchingLinks(CurrentNode, Head(ivr.listen_queue)) = <<>>
    /\ ivr' = [ivr EXCEPT !.listen_queue = Tail(@)]
    /\ UNCHANGED <<pipe_vars, tw_vars, conv_vars, loop_task, dtmf_received>>

\* wait_for_command takes a message that matches a command: the queue is
\* dropped, the task that repeats the message is cancelled and awaited.
IVR_CommandMatched ==
    /\ ivr.pc = "wait_for_command" /\ ivr.listen_queue # <<>>
    /\ loop_task.pc # "created"
    /\ MatchingLinks(CurrentNode, Head(ivr.listen_queue)) # <<>>
    /\ ivr' = [ivr EXCEPT
           !.pc = "await_loop_task", !.listen_queue = <<>>,
           !.listen_queue_is_none = TRUE,
           !.command = MatchingLinks(CurrentNode, Head(ivr.listen_queue))[1].message]
    /\ loop_task' = [loop_task EXCEPT !.cancel = TRUE]
    /\ UNCHANGED <<pipe_vars, tw_vars, conv_vars, dtmf_received>>

\* The nodes that the links with the command lead to.
NextNodes(node, command) ==
    SelectSeq(node.links, LAMBDA link : link.message = command)

\* wait_for_dtmf takes a digit that matches a command: the queue is dropped,
\* the task that repeats the message is cancelled and awaited.
IVR_DtmfCommand ==
    \E command \in AvailableCommands(CurrentNode) :
        /\ ivr.pc = "wait_for_dtmf" /\ ivr.dtmf_queue # <<>>
        /\ loop_task.pc # "created"
        /\ DtmfMatches(command, Head(ivr.dtmf_queue))
        /\ ivr' = [ivr EXCEPT !.pc = "await_loop_task", !.dtmf_queue = <<>>,
                              !.dtmf_queue_is_none = TRUE, !.command = command]
        /\ loop_task' = [loop_task EXCEPT !.cancel = TRUE]
        /\ UNCHANGED <<pipe_vars, tw_vars, conv_vars, dtmf_received>>

\* The task that repeats the message is done: the cursor moves along the link
\* of the command.
IVR_FollowLink ==
    /\ ivr.pc = "await_loop_task" /\ loop_task.pc = "done"
    /\ NextNodes(CurrentNode, ivr.command) # <<>>
    /\ ivr' = [ivr EXCEPT !.pc = "top",
                          !.current_node_id = NextNodes(CurrentNode, ivr.command)[1].next]
    /\ UNCHANGED <<pipe_vars, tw_vars, conv_vars, loop_task, dtmf_received>>

\* A machine that leaves a play or hold node by its last link.
LastLink(node) == node.links[Len(node.links)].next

\* The link a play or hold node is left by: the first.
FirstLink(node) == node.links[1].next

\* _run at a play node: the sound goes to the output device, and _run sleeps
\* for as long as the sound lasts.
IVR_PlayNode ==
    /\ AtNode /\ ~CurrentNode.is_final
    /\ CurrentNode.type = "play"
    /\ PlaySound
    /\ ivr' = [ivr EXCEPT !.pc = "play_audio"]
    /\ UNCHANGED <<tw_vars, conv_vars, loop_task, dtmf_received>>

\* play_audio is over: the cursor moves along the first link if there is one,
\* and _run is back at the top of its loop, after the node's delay.
IVR_PlayDone ==
    /\ ivr.pc = "play_audio"
    /\ ivr' = [ivr EXCEPT !.pc = "top",
                          !.current_node_id = IF CurrentNode.links # <<>>
                                              THEN FirstLink(CurrentNode) ELSE @]
    /\ UNCHANGED <<pipe_vars, tw_vars, conv_vars, loop_task, dtmf_received>>

\* _run at the test of the hold node's loop: on entering the node, and after
\* the sleep that follows a message.
AtHoldTest ==
    \/ AtNode /\ ~CurrentNode.is_final /\ CurrentNode.type = "hold"
    \/ ivr.pc = "hold_sleep"

\* The hold node's duration is not over: the next message is sent, and _run
\* waits for its tracker.
IVR_HoldMessage ==
    /\ AtHoldTest
    /\ send_single_message(0)
    /\ ivr' = [ivr EXCEPT !.pc = "hold_wait", !.tracker = NextId]
    /\ UNCHANGED <<tw_vars, conv_vars, loop_task, dtmf_received>>

\* The tracker of the hold message is set: _run sleeps for the node's delay.
IVR_HoldSleep ==
    /\ ivr.pc = "hold_wait" /\ ivr.tracker \in tracker_set
    /\ ivr' = [ivr EXCEPT !.pc = "hold_sleep"]
    /\ UNCHANGED <<pipe_vars, tw_vars, conv_vars, loop_task, dtmf_received>>

\* The hold node's duration is over: the cursor moves along the first link;
\* without a link _run raises.
IVR_HoldDone ==
    /\ AtHoldTest
    /\ ivr' = IF CurrentNode.links # <<>>
              THEN [ivr EXCEPT !.pc = "top", !.current_node_id = FirstLink(CurrentNode)]
              ELSE [ivr EXCEPT !.pc = "raised"]
    /\ UNCHANGED <<pipe_vars, tw_vars, conv_vars, loop_task, dtmf_received>>

\* _run raises at a message node whose link type is neither COMMAND nor DTMF,
\* after it has created the task that repeats the message, and at a node that
\* is no play, message or hold node.  Only CancelledError is caught: the
\* exception ends the task.
IVR_Raise ==
    /\ AtNode /\ ~CurrentNode.is_final
    /\ \/ /\ CurrentNode.type = "message"
          /\ CurrentNode.link_type \notin {"command", "dtmf"}
          /\ loop_task' = [pc |-> "created", cancel |-> FALSE, tracker |-> 0]
       \/ /\ CurrentNode.type \notin {"play", "message", "hold"}
          /\ UNCHANGED loop_task
    /\ ivr' = [ivr EXCEPT !.pc = "raised"]
    /\ UNCHANGED <<pipe_vars, tw_vars, conv_vars, dtmf_received>>

\* IvrWorker.terminate() cancels the _run task, unless it is done: the
\* CancelledError is raised where _run waits, and _run returns.
IVR_Terminate ==
    /\ cfg.terminates
    /\ ivr.pc \notin {"off", "finished", "raised", "cancelled"}
    /\ ivr' = [ivr EXCEPT !.pc = "cancelled"]
    /\ UNCHANGED <<pipe_vars, tw_vars, conv_vars, loop_task, dtmf_received>>

\* _loop_message sends the message, at its start and after every sleep, and
\* waits for the message's tracker.
Loop_SendMessage ==
    /\ loop_task.pc \in {"created", "sleep"} /\ ~loop_task.cancel
    /\ send_single_message(0)
    /\ loop_task' = [loop_task EXCEPT !.pc = "wait_tracker", !.tracker = NextId]
    /\ UNCHANGED <<tw_vars, conv_vars, ivr, dtmf_received>>

\* The tracker is set: the task sleeps.
Loop_Sleep ==
    /\ loop_task.pc = "wait_tracker" /\ ~loop_task.cancel
    /\ loop_task.tracker \in tracker_set
    /\ loop_task' = [loop_task EXCEPT !.pc = "sleep"]
    /\ UNCHANGED <<pipe_vars, tw_vars, conv_vars, ivr, dtmf_received>>

\* The task is cancelled where it waits: it returns.
Loop_Cancelled ==
    /\ loop_task.pc \in {"wait_tracker", "sleep"} /\ loop_task.cancel
    /\ loop_task' = [loop_task EXCEPT !.pc = "done"]
    /\ UNCHANGED <<pipe_vars, tw_vars, conv_vars, ivr, dtmf_received>>

\* ------------------------------------------------------- TranscriptionsWorker
\* A transcription's message is the sequence of the words that
\* message.strip().split() gives; the empty message is <<>>.
Messages ==
    {<<>>, <<"mm-hm">>, <<"stop">>, <<"Yes", "-", "-", "-">>,
     <<"please", "wait", "a", "moment">>}

\* re.sub("[^\w\s]", "", .) and lower() on one word.
CleanWord(w) ==
    CASE w = "mm-hm" -> "mmhm"
      [] w = "-" -> ""
      [] w = "Yes" -> "yes"
      [] OTHER -> w

\* strip() on the cleaned message: the words that were only punctuation leave
\* white space, which goes from both ends and stays inside.
RECURSIVE Strip(_)
Strip(ws) ==
    IF ws = <<>> THEN ws
    ELSE IF Head(ws) = "" THEN Strip(Tail(ws))
    ELSE IF ws[Len(ws)] = "" THEN Strip(SubSeq(ws, 1, Len(ws) - 1))
    ELSE ws

Cleaned(message) == Strip([i \in DOMAIN message |-> CleanWord(message[i])])

\* The cleaned messages that re.fullmatch accepts for a pattern of the list.
BACKCHANNEL_PATTERNS ==
    {<<"mmhm">>, <<"mm">>, <<"oh">>, <<"ah">>, <<"um">>, <<"uh">>, <<"yes">>,
     <<"sure">>, <<"quite">>, <<"right">>, <<"really">>, <<"good", "heavens">>,
     <<"i", "see">>, <<"of", "course">>, <<"oh", "dear">>, <<"oh", "god">>,
     <<"thats", "nice">>, <<"thats", "not", "bad">>, <<"thats", "right">>,
     <<"yeah">>, <<"makes", "sense">>}

LOW_INTERRUPT_SENSITIVITY_BACKCHANNEL_UTTERANCE_LENGTH_THRESHOLD == 3
LOWEST_INTERRUPT_SENSITIVITY_BACKCHANNEL_UTTERANCE_LENGTH_THRESHOLD == 50

\* The threshold on the number of words.
BackchannelThreshold ==
    IF cfg.simulate_interrupt
    THEN LOWEST_INTERRUPT_SENSITIVITY_BACKCHANNEL_UTTERANCE_LENGTH_THRESHOLD
    ELSE LOW_INTERRUPT_SENSITIVITY_BACKCHANNEL_UTTERANCE_LENGTH_THRESHOLD

is_transcription_backchannel(message) ==
    IF cfg.interrupt_sensitivity = "high" /\ Len(message) >= 1 THEN FALSE
    ELSE IF Len(message) <= BackchannelThreshold THEN TRUE
    ELSE Cleaned(message) \in BACKCHANNEL_PATTERNS

\* A bot message that is not a backchannel.
BotTurn(m) == ~m.is_backchannel /\ m.sender = "bot"

is_bot_in_medias_res ==
    /\ transcript # <<>>
    /\ BotTurn(transcript[Len(transcript)])
    /\ ~transcript[Len(transcript)].is_final
    /\ transcript[Len(transcript)].text # <<>>

is_bot_still_speaking ==
    LET last_message == transcript[Len(transcript)]
        is_first_bot_message ==
            Len(transcript) < 2 \/ transcript[Len(transcript) - 1].sender = "human"
    IN  /\ transcript # <<>>
        /\ BotTurn(last_message)
        /\ ~last_message.is_final \/ ~last_message.is_end_of_turn
        /\ ~(is_first_bot_message /\ last_message.text = <<>>)

\* No utterance is ignored.
IgnoresNoUtterance(message) == FALSE

should_ignore_utterance(message) ==
    IF tw.has_associated_unignored_utterance /\ ~cfg.simulate_interrupt THEN FALSE
    ELSE IF tw.has_associated_ignored_utterance \/ is_bot_still_speaking
         THEN is_transcription_backchannel(message)
         ELSE FALSE

\* The window of the deduplication, half a second, in ticks.
DedupWindow == 2

\* The test of the deduplication at time t.
Duplicate(message, t) ==
    /\ tw.last_transcription = message
    /\ tw.last_transcription_time # 0
    /\ t - tw.last_transcription_time < DedupWindow

\* A flush that adds nothing to the transcript.
BackchannelsLost(buffer) == <<>>

\* transcript.add_human_message(text, is_backchannel=True), for each one buffered
HumanBackchannels(buffer) ==
    [i \in DOMAIN buffer |->
        [sender |-> "human", text |-> buffer[i], is_final |-> FALSE,
         is_end_of_turn |-> FALSE, is_backchannel |-> TRUE]]

\* History: what process() found for the fragment it was called with;
\* utterance_hit, added by process(), tells that a broadcast made for a fragment
\* of the utterance this fragment belongs to (the fragments after the last
\* final one that was not dropped as a duplicate) has interrupted an event.
Fragment(message, is_final, t) ==
    [n |-> tw_last.n + 1, message |-> message, is_final |-> is_final,
     duplicate |-> Duplicate(message, t),
     initial_message_ongoing |-> initial_message_tracker \notin tracker_set,
     bot_still_speaking |-> is_bot_still_speaking,
     backchannel |-> is_transcription_backchannel(message),
     unignored_open |-> tw.has_associated_unignored_utterance,
     ignored_open |-> tw.has_associated_ignored_utterance,
     human_was_speaking |-> is_human_speaking,
     all_final |-> tw_last.all_final /\ is_final,
     none_duplicate |-> tw_last.none_duplicate /\ ~Duplicate(message, t)]

\* The stage's task runs: _ivr_handoff terminates the stage when the IVR
\* machine has finished and starts it again after the initial message.
TranscriptionsWorkerRuns == startup.handoff # "send_initial_message"

\* A stage that never takes the initial message to be ongoing.
GreetingNeverOngoing == FALSE

\* process(): the initial message has not been delivered yet.
initial_message_ongoing == initial_message_tracker \notin tracker_set

\* process() of a fragment that arrives dt ticks after the one before.
TW_Process(message, is_final, dt) ==
    LET t == now + dt
        seen == [tw EXCEPT !.last_transcription = message, !.last_transcription_time = t]
        ignore == \/ initial_message_ongoing
                  \/ should_ignore_utterance(message)
        bot_was_in_medias_res == is_bot_in_medias_res \/ is_bot_still_speaking
        reacts == ~Duplicate(message, t) /\ message # <<>> /\ ~ignore
                     /\ ~(tw.ignore_next_message /\ is_final)
        interrupts == reacts /\ is_human_speaking /\ bot_was_in_medias_res
        forwards == reacts /\ is_final
        is_interrupt == IF ~is_human_speaking THEN current_transcription_is_interrupt
                        ELSE IF bot_was_in_medias_res THEN BroadcastReturns ELSE FALSE
        drained == IF interrupts THEN DrainLeaves(interruptible_events)
                   ELSE interruptible_events
    IN  /\ tw_last.n < cfg.fragments
        /\ TranscriptionsWorkerRuns
        /\ now' = t
        /\ tw' = IF Duplicate(message, t) THEN tw
                 ELSE IF message = <<>> THEN seen
                 ELSE IF ignore
                 THEN [seen EXCEPT
                          !.has_associated_ignored_utterance = ~is_final,
                          !.human_backchannels_buffer =
                              IF is_final THEN Append(@, message) ELSE @]
                 ELSE IF tw.ignore_next_message /\ is_final
                 THEN [seen EXCEPT !.has_associated_ignored_utterance = FALSE,
                                   !.ignore_next_message = FALSE]
                 ELSE [seen EXCEPT
                          !.has_associated_ignored_utterance = IF is_final THEN FALSE ELSE @,
                          !.has_associated_unignored_utterance =
                              IF is_final THEN FALSE
                              ELSE IF interrupts THEN TRUE ELSE @,
                          !.human_backchannels_buffer = IF is_final THEN <<>> ELSE @]
        /\ current_transcription_is_interrupt' =
               IF reacts THEN is_interrupt ELSE current_transcription_is_interrupt
        /\ is_human_speaking' = IF reacts THEN ~is_final ELSE is_human_speaking
        /\ interruption_set' = IF interrupts THEN BroadcastOutcome.toks ELSE interruption_set
        /\ arw' = IF interrupts THEN CancelCurrentTask(arw) ELSE arw
        /\ broadcasts' = IF interrupts THEN Append(broadcasts, BroadcastLog("speech"))
                         ELSE broadcasts
        /\ transcript' = IF forwards
                         THEN transcript \o HumanBackchannels(tw.human_backchannels_buffer)
                         ELSE transcript
        /\ events' = IF forwards
                     THEN events @@ (NextInputId :>
                              Event("agent_input", "transcription", TRUE, NextInputId, 0))
                     ELSE events
        /\ interruptible_events' =
               IF forwards THEN FactoryRegisters(drained, <<NextInputId>>) ELSE drained
        /\ registered' = registered \cup (Range(interruptible_events') \ Range(drained))
        /\ ivr' = IF forwards /\ startup.consumer = "ivr_worker"
                  THEN [ivr EXCEPT !.input_queue =
                           Append(@, [event |-> NextInputId, message |-> message])]
                  ELSE ivr
        /\ agent_q' = IF forwards /\ startup.consumer = "agent"
                      THEN Append(agent_q,
                               [event |-> NextInputId, fragment |-> tw_last.n + 1,
                                is_interrupt |-> is_interrupt,
                                bot_was_in_medias_res |-> is_interrupt /\ bot_was_in_medias_res])
                      ELSE agent_q
        /\ tw_last' = Fragment(message, is_final, t) @@
               [ignored |-> ~Duplicate(message, t) /\ message # <<>> /\ ignore,
                interrupts |-> interrupts,
                utterance_hit |->
                    \/ interrupts /\ BroadcastReturns
                    \/ /\ tw_last.utterance_hit
                       /\ ~(tw_last.is_final /\ ~tw_last.duplicate),
                forwarded |-> Len(agent_q') - Len(agent_q)]
        /\ last_action_timestamp' = IF Duplicate(message, t) THEN last_action_timestamp ELSE t
        /\ UNCHANGED <<loop_task, dtmf_received, idle, startup, server, cfg, tracker_set, processed, arq, faq, faw, srq, srw,
                       speech, outq, dev, audio_chunks, muted, is_terminated, term_pc>>

\* start() with an initial message: send_initial_message, after its delay.
send_initial_message ==
    /\ cfg.initial_message
    /\ \A e \in DOMAIN events : events[e].tracker # initial_message_tracker
    /\ send_single_message(initial_message_tracker)
    /\ UNCHANGED xvars

\* The messages of the fragments delivered: all of them, two, or one that is
\* repeated.
Vocabulary ==
    IF cfg.words = "all" THEN Messages
    ELSE IF cfg.words = "echo" THEN {<<"please", "wait", "a", "moment">>}
    ELSE {<<"stop">>, <<"please", "wait", "a", "moment">>}

\* The delays between two fragments, in ticks: inside the window or not, or
\* never inside.
Gaps == IF cfg.words \in {"all", "echo"} THEN 1..DedupWindow ELSE {DedupWindow}

\* -------------------------------------------------------- telephony server
\* The values auth_token may have; NoToken is None.
NoToken == "None"
AuthTokens == {NoToken, "secret"}

\* What HTTPBearer(auto_error=False) hands to the route: NoToken when the
\* request has no bearer token, else the token.
Credentials == {NoToken, "secret", "guess"}

\* The inbound call configs: TwilioInboundCallConfig and
\* VonageInboundCallConfig, with the fields the routes read.
InboundCallConfigs ==
    [provider : {"twilio", "vonage"}, verify_token : BOOLEAN,
     auth_token : AuthTokens, dynamic_call : BOOLEAN]

\* No TelephonyServer is constructed.
NoServer == [pc |-> "none", routes |-> {}, refused |-> {}, requests |-> <<>>]

\* TelephonyServer(...) before the routes of its inbound call configs are
\* created; there is a dynamic call manager.
ServerConstructing == [NoServer EXCEPT !.pc = "init"]

\* create_inbound_route raises for the config.
RouteRefused(config) == config.verify_token /\ config.auth_token = NoToken

\* __init__ creates the route of one inbound call config: a ValueError ends
\* the construction.
create_inbound_route(config) ==
    /\ server.pc = "init"
    /\ Cardinality(server.routes) < MaxRoutes
    /\ config \notin server.routes
    /\ server' = IF RouteRefused(config)
                 THEN [server EXCEPT !.pc = "failed", !.refused = @ \cup {config}]
                 ELSE [server EXCEPT !.routes = @ \cup {config}]
    /\ UNCHANGED <<pipe_vars, tw_vars, ivr_vars, idle, startup, last_action_timestamp>>

\* __init__ returns: the routes answer requests.
ServerConstructed ==
    /\ server.pc = "init"
    /\ server' = [server EXCEPT !.pc = "serving"]
    /\ UNCHANGED <<pipe_vars, tw_vars, ivr_vars, idle, startup, last_action_timestamp>>

\* The dependency verify_token of a route: TRUE when it raises the 401.
TokenRejected(config, credentials) ==
    /\ config.verify_token
    /\ credentials = NoToken \/ credentials # config.auth_token

\* The answer of twilio_route, which depends on verify_token: a request
\* that is let through creates the call, when the call is dynamic, and saves
\* the call config.
TwilioAnswer(config, credentials) ==
    IF TokenRejected(config, credentials)
    THEN [route |-> config, credentials |-> credentials, status |-> 401,
          call_created |-> FALSE, config_saved |-> FALSE]
    ELSE [route |-> config, credentials |-> credentials, status |-> 200,
          call_created |-> config.dynamic_call, config_saved |-> TRUE]

\* The answer of vonage_route, which has no dependency: the call config is
\* saved and the NCCO that connects the call returned.
VonageAnswer(config, credentials) ==
    [route |-> config, credentials |-> credentials, status |-> 200,
     call_created |-> TRUE, config_saved |-> TRUE]

\* A POST request arrives at the route of an inbound call config.
InboundRequest(config, credentials) ==
    /\ server.pc = "serving"
    /\ config \in server.routes
    /\ Len(server.requests) < MaxRequests
    /\ server' = [server EXCEPT !.requests =
                     Append(@, IF config.provider = "twilio"
                               THEN TwilioAnswer(config, credentials)
                               ELSE VonageAnswer(config, credentials))]
    /\ UNCHANGED <<pipe_vars, tw_vars, ivr_vars, idle, startup, last_action_timestamp>>

\* -------------------------------------------------------------------- start
\* The conversation before start() is called, with or without an ivr_config.
NotStarted(ivr_config) ==
    [pc |-> "init", ivr_config |-> ivr_config, workers_started |-> FALSE,
     agent_started |-> FALSE, launched |-> "none",
     consumer |-> "agent",     \* transcriptions_worker.consumer
     handoff |-> "none"]       \* where the _ivr_handoff task is

\* What start() launches: the IVR flow of an ivr_config, else the initial
\* message if there is one.
Launches(ivr_config) ==
    IF ivr_config THEN "handle_ivr"
    ELSE IF cfg.initial_message THEN "send_initial_message" ELSE "none"

\* The conversation once start() has returned.
Started ==
    [pc |-> "started", ivr_config |-> FALSE, workers_started |-> TRUE,
     agent_started |-> TRUE, launched |-> Launches(FALSE),
     consumer |-> "agent", handoff |-> "none"]

\* A conversation whose transcriptions all go to the agent.
AgentConsumes(ivr_dag) == "agent"

\* transcriptions_worker.consumer as __init__ leaves it.
InitialConsumer(ivr_dag) == IF ivr_dag THEN "ivr_worker" ELSE "agent"

\* The conversation with an IVR DAG once start() has returned: the IVR
\* machine is started and the _ivr_handoff task created.
StartedWithIvrDag ==
    [Started EXCEPT !.launched = "_ivr_handoff",
                    !.consumer = InitialConsumer(TRUE),
                    !.handoff = "wait_for_finished"]

\* The tracker _ivr_handoff makes for the initial message.
handoff_message_tracker == initial_message_tracker - 1

\* _ivr_handoff, once the IVR machine has finished: the transcription stage
\* is terminated; the initial message, if there is one, is sent and waited
\* for; else the stage gets the agent for consumer and is started again.
Handoff_Finished ==
    /\ startup.handoff = "wait_for_finished" /\ ivr.finished_event
    /\ IF cfg.initial_message
       THEN /\ send_single_message(handoff_message_tracker)
            /\ startup' = [startup EXCEPT !.handoff = "send_initial_message"]
       ELSE /\ startup' = [startup EXCEPT !.handoff = "done", !.consumer = "agent"]
            /\ UNCHANGED pipe_vars
    /\ UNCHANGED <<tw_vars, ivr_vars, idle, server, last_action_timestamp>>

\* The initial message has been delivered: the transcription stage gets the
\* agent for consumer and is started again.
Handoff_InitialMessageDone ==
    /\ startup.handoff = "send_initial_message"
    /\ handoff_message_tracker \in tracker_set
    /\ startup' = [startup EXCEPT !.handoff = "done", !.consumer = "agent"]
    /\ UNCHANGED <<pipe_vars, tw_vars, ivr_vars, idle, server, last_action_timestamp>>

\* start() starts the transcriber, the stages and the output device, and
\* waits for the transcriber to be ready.
Start_Workers ==
    /\ startup.pc = "init"
    /\ startup' = [startup EXCEPT !.pc = "transcriber_ready", !.workers_started = TRUE]
    /\ UNCHANGED <<pipe_vars, tw_vars, ivr_vars, idle, server, last_action_timestamp>>

\* A start() that starts the agent although the transcriber is not ready.
Start_AgentAnyway ==
    /\ startup.pc = "transcriber_ready"
    /\ startup' = [startup EXCEPT !.pc = "failed", !.agent_started = TRUE]
    /\ UNCHANGED <<pipe_vars, tw_vars, ivr_vars, idle, server, last_action_timestamp>>

\* The transcriber is not ready: start() raises.
Start_TranscriberFailed ==
    /\ startup.pc = "transcriber_ready"
    /\ startup' = [startup EXCEPT !.pc = "failed"]
    /\ UNCHANGED <<pipe_vars, tw_vars, ivr_vars, idle, server, last_action_timestamp>>

\* The transcriber is ready: the agent is started, the IVR flow or the
\* initial message is launched or the initial message's tracker is set,
\* is_terminated is cleared and the check_for_idle task is created.
Start_TranscriberReady ==
    /\ startup.pc = "transcriber_ready"
    /\ startup' = [startup EXCEPT !.pc = "started", !.agent_started = TRUE,
                                  !.launched = Launches(startup.ivr_config)]
    /\ tracker_set' = IF Launches(startup.ivr_config) = "none"
                      THEN tracker_set \cup {initial_message_tracker} ELSE tracker_set
    /\ is_terminated' = FALSE
    /\ idle' = [idle EXCEPT !.pc = "wait_initial"]
    /\ UNCHANGED <<tw_vars, ivr_vars, server, last_action_timestamp, cfg, events, registered, interruption_set,
                   interruptible_events, processed, arq, arw, faq, faw, srq, srw,
                   speech, outq, dev, audio_chunks, transcript, muted, term_pc,
                   broadcasts>>

\* handle_ivr, of an ivr_config without ivr_message, handoff delay and hold
\* message: the idle monitor is paused and resumed, and the initial message's
\* tracker is set.
handle_ivr ==
    /\ startup.launched = "handle_ivr"
    /\ startup' = [startup EXCEPT !.launched = "handle_ivr_done"]
    /\ idle' = [idle EXCEPT !.check_for_idle_paused = FALSE, !.resumed_at = now]
    /\ last_action_timestamp' = now
    /\ tracker_set' = tracker_set \cup {initial_message_tracker}
    /\ UNCHANGED <<tw_vars, ivr_vars, server, cfg, events, registered, interruption_set,
                   interruptible_events, processed, arq, arw, faq, faw, srq, srw,
                   speech, outq, dev, audio_chunks, transcript, muted, is_terminated,
                   term_pc, broadcasts>>

\* ------------------------------------------------------------ check_for_idle
\* The idle monitor as __init__ leaves it: no task yet.
IdleOff ==
    [pc |-> "off", check_human_present_count |-> 0,
     num_check_human_present_times |-> 0, check_for_idle_paused |-> FALSE,
     periods |-> <<>>, terminated_at |-> 0,
     pause_calls |-> 0,    \* history: calls of set_check_for_idle_paused
     resumed_at |-> 0,     \* history: time of the last call that un-paused
     paused_turns |-> 0]   \* history: turns of the loop taken while paused

\* ... for an agent configured with the given num_check_human_present_times.
IdleConfigured(times) == [IdleOff EXCEPT !.num_check_human_present_times = times]

\* check_for_idle has waited for the initial message's tracker: it sets its
\* count to 0 and enters its loop.
Idle_Start ==
    /\ idle.pc = "wait_initial"
    /\ initial_message_tracker \in tracker_set
    /\ idle' = [idle EXCEPT !.pc = "loop", !.check_human_present_count = 0]
    /\ UNCHANGED <<pipe_vars, tw_vars, ivr_vars, startup, server, last_action_timestamp>>

\* is_active()
is_active == ~is_terminated

\* The test of action_on_idle in a silent period.
IdleCountReached(i) == i.check_human_present_count >= i.num_check_human_present_times

\* ALLOWED_IDLE_TIME, in ticks: the sleep of the loop, and the threshold of an
\* agent configured without allowed_idle_time_seconds.
ALLOWED_IDLE_TIME == 60

idle_time_threshold == ALLOWED_IDLE_TIME

\* A call that only pauses: the last-activity time is left alone.
PauseKeepsTimestamp(paused) == last_action_timestamp

\* The last-activity time after set_check_for_idle_paused(paused).
PauseMarksTimestamp(paused) == IF ~paused THEN now ELSE last_action_timestamp

\* set_check_for_idle_paused(paused), called on a started conversation.
set_check_for_idle_paused(paused) ==
    /\ idle.pc \in {"wait_initial", "loop"}
    /\ idle.pause_calls < MaxPauses
    /\ last_action_timestamp' = PauseMarksTimestamp(paused)
    /\ idle' = [idle EXCEPT !.check_for_idle_paused = paused,
                            !.pause_calls = @ + 1,
                            !.resumed_at = IF ~paused THEN now ELSE @]
    /\ UNCHANGED <<pipe_vars, tw_vars, ivr_vars, startup, server>>

\* The test of line 1114.
IdleSilent ==
    ~idle.check_for_idle_paused /\ now - last_action_timestamp > idle_time_threshold

\* The sleep of the loop: it returns once ALLOWED_IDLE_TIME has passed, and
\* the next turn reads the clock a tick later.
IdleSleep ==
    /\ now' = now + ALLOWED_IDLE_TIME + 1
    /\ UNCHANGED <<tw, is_human_speaking, current_transcription_is_interrupt,
                   agent_q, tw_last>>

\* One turn of the loop, with more than idle_time_threshold since the last
\* action recorded and the monitor not paused: action_on_idle when the count
\* has reached num_check_human_present_times, then the prompt and the count
\* raised, and the sleep.
Idle_SilentPeriod ==
    /\ idle.pc = "loop" /\ is_active
    /\ Len(idle.periods) < MaxPeriods
    /\ IdleSilent
    /\ is_terminated' = IdleCountReached(idle)
    /\ QueueSingleMessage(0)
    /\ idle' = [idle EXCEPT !.check_human_present_count = @ + 1,
                            !.periods = Append(@, "silent"),
                            !.terminated_at = IF IdleCountReached(idle)
                                              THEN Len(idle.periods) + 1 ELSE @]
    /\ IdleSleep
    /\ UNCHANGED <<ivr_vars, startup, server, last_action_timestamp>>

\* One turn of the loop, with an action recorded within idle_time_threshold
\* or with the monitor paused: only the sleep.
Idle_ActivePeriod ==
    /\ idle.pc = "loop" /\ is_active
    /\ Len(idle.periods) < MaxPeriods
    /\ ~IdleSilent
    /\ idle' = [idle EXCEPT !.periods = Append(@, "active"),
                            !.paused_turns = IF idle.check_for_idle_paused
                                             THEN @ + 1 ELSE @]
    /\ IdleSleep
    /\ UNCHANGED <<pipe_vars, ivr_vars, startup, server, last_action_timestamp>>

\* The loop ends when the conversation is not active any more.
Idle_Exit ==
    /\ idle.pc = "loop" /\ ~is_active
    /\ idle' = [idle EXCEPT !.pc = "done"]
    /\ UNCHANGED <<pipe_vars, tw_vars, ivr_vars, startup, server, last_action_timestamp>>

\* --------------------------------------------------------------------- Spec
Payloads == {"filler_audio", "stop", "message", "end_of_turn"}

Next ==
    \/ \E p \in Payloads, i \in BOOLEAN : AgentRespond(p, i)
    \/ check_for_idle_prompt
    \/ play_audio
    \/ SpeechInterrupt
    \/ ARW_Skip
    \/ ARW_SynthesisDisabled
    \/ ARW_FillerAudio
    \/ ARW_Stop
    \/ ARW_StopResume
    \/ ARW_EndOfTurn
    \/ ARW_Message
    \/ ARW_CreateSpeechDone
    \/ ARW_Cancelled
    \/ SRW_EndOfTurn
    \/ SRW_Message
    \/ FAW_Skip
    \/ FAW_Start
    \/ FAW_Speak
    \/ \E e \in DOMAIN speech : SS_SendChunk(e)
    \/ \E e \in DOMAIN speech : SS_Interrupted(e)
    \/ \E e \in DOMAIN speech : SS_EndOfChunks(e)
    \/ \E e \in DOMAIN speech : SS_LastProcessed(e)
    \/ Dev_Interrupted
    \/ Dev_Play
    \/ Dev_Played
    \/ Terminate_Start
    \/ Terminate_OutputDevice
    \/ Terminate_AgentResponsesWorker
    \/ Terminate_SynthesisResultsWorker
    \/ Terminate_FillerAudioWorker

Init ==
    /\ cfg \in {c \in Configs : Dialogue(c) \/ Playback(c) \/ Sound(c) \/ Turns(c)}
    /\ PipeStart
    /\ TranscriptionsStart
    /\ IvrStart
    /\ idle = IdleOff
    /\ startup = Started
    /\ server = NoServer

Spec == Init /\ [][Next]_vars

\* ------------------------------------------------- playback with failing callbacks
\* A conversation among agent, synthesizer and output device in which the
\* on_play() of a chunk can raise.
FaultyInit ==
    /\ cfg \in {c \in Configs : Dialogue(c) /\ c.synthesis_enabled /\ c.filler = "off"}
    /\ PipeStart
    /\ TranscriptionsStart
    /\ IvrStart
    /\ idle = IdleOff
    /\ startup = Started
    /\ server = NoServer

FaultyNext ==
    \/ \E p \in {"message", "end_of_turn"}, i \in BOOLEAN : AgentRespond(p, i)
    \/ SpeechInterrupt
    \/ ARW_Skip
    \/ ARW_EndOfTurn
    \/ ARW_Message
    \/ ARW_CreateSpeechDone
    \/ ARW_Cancelled
    \/ SRW_EndOfTurn
    \/ SRW_Message
    \/ \E e \in DOMAIN speech : SS_SendChunk(e)
    \/ \E e \in DOMAIN speech : SS_Interrupted(e)
    \/ \E e \in DOMAIN speech : SS_EndOfChunks(e)
    \/ \E e \in DOMAIN speech : SS_LastProcessed(e)
    \/ Dev_Interrupted
    \/ Dev_Play
    \/ Dev_Played
    \/ \E at \in {"first_chunk", "get_message_up_to"} : Dev_PlayedOnPlayRaises(at)

SpecFaulty == FaultyInit /\ [][FaultyNext]_vars

\* ------------------------------------------------- the conversation listening
\* The bot says one message, the initial message (with its end of turn) or a
\* response of the agent, while transcription fragments are delivered ...
Listening(c) ==
    /\ NoIvr(c)
    /\ c.synthesis_enabled /\ c.mute_during_speech /\ c.filler = "off"
    /\ ~c.terminates /\ c.sounds = 0 /\ c.broadcasts = 0
    /\ \/ /\ c.words = "all" /\ c.fragments = MaxRapidFragments
          /\ c.interrupt_sensitivity = "low" /\ ~c.simulate_interrupt
          /\ c.responses = (IF c.initial_message THEN 2 ELSE 1) /\ c.chunks = 1
       \/ /\ c.words = "few" /\ c.fragments = MaxFragments
          /\ ~c.initial_message
          /\ c.interrupt_sensitivity = "low" \/ ~c.simulate_interrupt
          /\ c.responses = 2 /\ c.chunks = 1
       \/ /\ c.words = "echo" /\ c.fragments = MaxFragments
          /\ ~c.initial_message
          /\ c.interrupt_sensitivity = "low" /\ ~c.simulate_interrupt
          /\ c.responses = 1 /\ c.chunks = 1

ListeningInit ==
    /\ cfg \in {c \in Configs : Listening(c)}
    /\ PipeStart
    /\ TranscriptionsStart
    /\ IvrStart
    /\ idle = IdleOff
    /\ startup = Started
    /\ server = NoServer

ListeningNext ==
    \/ \E m \in Vocabulary, f \in BOOLEAN, dt \in Gaps : TW_Process(m, f, dt)
    \/ send_initial_message
    \/ \E p \in {"message", "end_of_turn"} : ~cfg.initial_message /\ AgentRespond(p, TRUE)
    \/ ARW_Skip
    \/ ARW_EndOfTurn
    \/ ARW_Message
    \/ ARW_CreateSpeechDone
    \/ ARW_Cancelled
    \/ SRW_EndOfTurn
    \/ SRW_Message
    \/ \E e \in DOMAIN speech : SS_SendChunk(e)
    \/ \E e \in DOMAIN speech : SS_Interrupted(e)
    \/ \E e \in DOMAIN speech : SS_EndOfChunks(e)
    \/ \E e \in DOMAIN speech : SS_LastProcessed(e)
    \/ Dev_Interrupted
    \/ Dev_Play
    \/ Dev_Played

SpecListening == ListeningInit /\ [][ListeningNext]_vars

\* ------------------------------------------------------------ the IVR machine
\* The IVR machine walks the DAG while digits are received; its message node
\* says its prompt through the pipeline.
IvrScenario(c) ==
    /\ c.ivr_dag /\ c.digits = MaxDigits
    /\ c.synthesis_enabled /\ ~c.mute_during_speech /\ c.filler = "off"
    /\ ~c.terminates /\ c.sounds = 0 /\ c.broadcasts = 0
    /\ c.interrupt_sensitivity = "low" /\ ~c.simulate_interrupt
    /\ ~c.initial_message /\ c.fragments = 0 /\ c.words = "few"
    /\ c.responses = MaxResponses /\ c.chunks = 1

IvrInit ==
    /\ cfg \in {c \in Configs : IvrScenario(c)}
    /\ PipeStart
    /\ TranscriptionsStart
    /\ IvrStart
    /\ idle = IdleOff
    /\ startup = Started
    /\ server = NoServer

IvrNext ==
    \/ \E digit \in Digits : receive_dtmf(digit)
    \/ IVR_WaitDelay
    \/ IVR_Final
    \/ IVR_MessageNode
    \/ IVR_DtmfIgnored
    \/ IVR_DtmfCommand
    \/ IVR_FollowLink
    \/ Loop_SendMessage
    \/ Loop_Sleep
    \/ Loop_Cancelled
    \/ ARW_EndOfTurn
    \/ ARW_Message
    \/ ARW_CreateSpeechDone
    \/ SRW_EndOfTurn
    \/ SRW_Message
    \/ \E e \in DOMAIN speech : SS_SendChunk(e)
    \/ \E e \in DOMAIN speech : SS_EndOfChunks(e)
    \/ \E e \in DOMAIN speech : SS_LastProcessed(e)
    \/ Dev_Play
    \/ Dev_Played

\* The event loop runs every task that is ready: a step of _run or of the
\* task that repeats the message is taken when it stays possible.
IvrFairness ==
    /\ WF_vars(IVR_WaitDelay) /\ WF_vars(IVR_Final) /\ WF_vars(IVR_MessageNode)
    /\ WF_vars(IVR_DtmfIgnored) /\ WF_vars(IVR_DtmfCommand)
    /\ WF_vars(IVR_FollowLink)
    /\ WF_vars(Loop_SendMessage) /\ WF_vars(Loop_Cancelled)

SpecIvr == IvrInit /\ [][IvrNext]_vars /\ IvrFairness

\* ------------------------------------------------- the IVR machine, any DAG
\* The IVR machine walks one of the DAGs whose links are not spoken commands
\* (nothing is transcribed here), and IvrWorker.terminate() may be called.
IvrWalk(c) ==
    /\ c.ivr_dag /\ c.digits = 2
    /\ c.synthesis_enabled /\ ~c.mute_during_speech /\ c.filler = "off"
    /\ c.terminates /\ c.sounds = MaxSounds /\ c.broadcasts = 0
    /\ c.interrupt_sensitivity = "low" /\ ~c.simulate_interrupt
    /\ ~c.initial_message /\ c.fragments = 0 /\ c.words = "few"
    /\ c.responses = 2 * MaxResponses /\ c.chunks = 1

IvrWalkInit ==
    /\ cfg \in {c \in Configs : IvrWalk(c)}
    /\ PipeStart
    /\ TranscriptionsStart
    /\ IvrStartOn(DOMAIN Dags \ {"voice"})
    /\ idle = IdleOff
    /\ startup = Started
    /\ server = NoServer

IvrWalkNext ==
    \/ IvrNext
    \/ IVR_PlayNode
    \/ IVR_PlayDone
    \/ IVR_HoldMessage
    \/ IVR_HoldSleep
    \/ IVR_HoldDone
    \/ IVR_Raise
    \/ IVR_Terminate

SpecIvrWalk == IvrWalkInit /\ [][IvrWalkNext]_vars /\ IvrFairness

\* ------------------------------------------- the IVR machine, spoken commands
\* The IVR machine is at a message node that takes spoken commands, and
\* transcriptions, final or not, are handed to IvrWorker.process.
IvrVoice(c) ==
    /\ c.ivr_dag /\ c.digits = 0 /\ ~c.wait_delay
    /\ c.synthesis_enabled /\ ~c.mute_during_speech /\ c.filler = "off"
    /\ ~c.terminates /\ c.sounds = 0 /\ c.broadcasts = 0
    /\ c.interrupt_sensitivity = "low" /\ ~c.simulate_interrupt
    /\ ~c.initial_message /\ c.fragments = 0 /\ c.words = "few"
    /\ c.responses = MaxResponses /\ c.chunks = 1

IvrVoiceInit ==
    /\ cfg \in {c \in Configs : IvrVoice(c)}
    /\ PipeStart
    /\ TranscriptionsStart
    /\ IvrStartOn({"voice"})
    /\ idle = IdleOff
    /\ startup = Started
    /\ server = NoServer

IvrVoiceNext ==
    \/ \E message \in Heard, is_final \in BOOLEAN : IVR_Process(message, is_final)
    \/ IVR_CommandNode
    \/ IVR_CommandUnmatched
    \/ IVR_CommandMatched
    \/ IVR_FollowLink
    \/ IVR_Final
    \/ Loop_SendMessage
    \/ Loop_Sleep
    \/ Loop_Cancelled
    \/ ARW_EndOfTurn
    \/ ARW_Message
    \/ ARW_CreateSpeechDone
    \/ SRW_EndOfTurn
    \/ SRW_Message
    \/ \E e \in DOMAIN speech : SS_SendChunk(e)
    \/ \E e \in DOMAIN speech : SS_EndOfChunks(e)
    \/ \E e \in DOMAIN speech : SS_LastProcessed(e)
    \/ Dev_Play
    \/ Dev_Played

\* The event loop runs every task that is ready.
IvrVoiceFairness ==
    /\ WF_vars(IVR_CommandNode) /\ WF_vars(IVR_CommandUnmatched)
    /\ WF_vars(IVR_CommandMatched) /\ WF_vars(IVR_FollowLink)
    /\ WF_vars(IVR_Final) /\ WF_vars(Loop_SendMessage) /\ WF_vars(Loop_Cancelled)

SpecIvrVoice == IvrVoiceInit /\ [][IvrVoiceNext]_vars /\ IvrVoiceFairness

\* ----------------------------------------------------------- the idle monitor
\* start() is called, and nobody speaks but the initial message and the idle
\* monitor, whose prompts go through the pipeline.
IdleScenario(c) ==
    /\ NoIvr(c)
    /\ c.interrupt_sensitivity = "low" /\ ~c.simulate_interrupt
    /\ c.fragments = 0 /\ c.words = "few"
    /\ c.synthesis_enabled /\ ~c.mute_during_speech /\ c.filler = "off"
    /\ ~c.terminates /\ c.sounds = 0 /\ c.broadcasts = 0
    /\ c.responses = 2 * MaxPeriods /\ c.chunks = 1

IdleInit ==
    /\ cfg \in {c \in Configs : IdleScenario(c)}
    /\ PipeConstructed
    /\ tracker_set = {}
    /\ TranscriptionsStart
    /\ IvrStart
    /\ idle \in {IdleConfigured(times) : times \in 0..MaxPresenceChecks}
    /\ startup \in {NotStarted(ivr_config) : ivr_config \in BOOLEAN}
    /\ server = NoServer

IdleNext ==
    \/ Start_Workers
    \/ Start_TranscriberFailed
    \/ Start_TranscriberReady
    \/ handle_ivr
    \/ startup.launched = "send_initial_message" /\ send_initial_message
    \/ \E paused \in BOOLEAN : set_check_for_idle_paused(paused)
    \/ Idle_Start
    \/ Idle_SilentPeriod
    \/ Idle_ActivePeriod
    \/ Idle_Exit
    \/ ARW_EndOfTurn
    \/ ARW_Message
    \/ ARW_CreateSpeechDone
    \/ SRW_EndOfTurn
    \/ SRW_Message
    \/ \E e \in DOMAIN speech : SS_SendChunk(e)
    \/ \E e \in DOMAIN speech : SS_EndOfChunks(e)
    \/ \E e \in DOMAIN speech : SS_LastProcessed(e)
    \/ Dev_Play
    \/ Dev_Played

SpecIdle == IdleInit /\ [][IdleNext]_vars

\* ------------------------------------------------------------- the handoff
\* The conversation is started with an IVR DAG: the human is transcribed and
\* presses digits while the IVR machine runs, and after it has finished.
Handoff(c) ==
    /\ c.ivr_dag /\ c.digits = 1 /\ ~c.wait_delay
    /\ c.synthesis_enabled /\ ~c.mute_during_speech /\ c.filler = "off"
    /\ ~c.terminates /\ c.sounds = 0 /\ c.broadcasts = 0
    /\ c.interrupt_sensitivity = "low" /\ ~c.simulate_interrupt
    /\ c.fragments = MaxRapidFragments /\ c.words = "few"
    /\ c.responses = 2 * MaxResponses /\ c.chunks = 1

\* start() of a conversation with an IVR DAG sets the initial message's
\* tracker itself.
HandoffInit ==
    /\ cfg \in {c \in Configs : Handoff(c)}
    /\ PipeConstructed
    /\ tracker_set = {initial_message_tracker}
    /\ TranscriptionsStart
    /\ IvrStart
    /\ idle = IdleOff
    /\ startup = StartedWithIvrDag
    /\ server = NoServer

HandoffNext ==
    \/ \E m \in Vocabulary, f \in BOOLEAN, dt \in Gaps : TW_Process(m, f, dt)
    \/ IVR_Consume
    \/ Handoff_Finished
    \/ Handoff_InitialMessageDone
    \/ receive_dtmf("1")
    \/ IVR_Final
    \/ IVR_MessageNode
    \/ IVR_DtmfCommand
    \/ IVR_FollowLink
    \/ Loop_SendMessage
    \/ Loop_Sleep
    \/ Loop_Cancelled
    \/ ARW_EndOfTurn
    \/ ARW_Message
    \/ ARW_CreateSpeechDone
    \/ SRW_EndOfTurn
    \/ SRW_Message
    \/ \E e \in DOMAIN speech : SS_SendChunk(e)
    \/ \E e \in DOMAIN speech : SS_EndOfChunks(e)
    \/ \E e \in DOMAIN speech : SS_LastProcessed(e)
    \/ Dev_Play
    \/ Dev_Played

SpecHandoff == HandoffInit /\ [][HandoffNext]_vars

\* ------------------------------------------------------- the agent hangs up
\* The agent sends messages, ends of turn and stop requests; the synthesizer
\* may return no synthesis result for a message; the human may speak once.
HangUp(c) ==
    /\ Deaf(c)
    /\ c.synthesis_enabled /\ ~c.mute_during_speech /\ c.filler = "off"
    /\ ~c.terminates /\ c.sounds = 0
    /\ c.responses = MaxResponses /\ c.chunks = 1

HangUpInit ==
    /\ cfg \in {c \in Configs : HangUp(c)}
    /\ PipeStart
    /\ TranscriptionsStart
    /\ IvrStart
    /\ idle = IdleOff
    /\ startup = Started
    /\ server = NoServer

\* The steps of the stages and of the output device.
HangUpStages ==
    \/ ARW_Skip
    \/ ARW_Stop
    \/ ARW_StopResume
    \/ ARW_EndOfTurn
    \/ ARW_Message
    \/ ARW_CreateSpeechDone
    \/ ARW_NoSynthesisResult
    \/ ARW_Cancelled
    \/ SRW_EndOfTurn
    \/ SRW_Message
    \/ \E e \in DOMAIN speech : SS_SendChunk(e)
    \/ \E e \in DOMAIN speech : SS_Interrupted(e)
    \/ \E e \in DOMAIN speech : SS_EndOfChunks(e)
    \/ \E e \in DOMAIN speech : SS_LastProcessed(e)
    \/ Dev_Interrupted
    \/ Dev_Play
    \/ Dev_Played

HangUpNext ==
    \/ \E p \in {"message", "end_of_turn", "stop"}, i \in BOOLEAN : AgentRespond(p, i)
    \/ SpeechInterrupt
    \/ HangUpStages

\* The event loop runs every task that is ready: a stage that can take a
\* step takes one.
SpecHangUp == HangUpInit /\ [][HangUpNext]_vars /\ WF_vars(HangUpStages)

\* ----------------------------------------------------- the telephony server
\* A TelephonyServer is constructed with some inbound call configs, and its
\* routes receive requests with any credentials; no conversation runs.
TelephonyInit ==
    /\ cfg \in {c \in Configs : HangUp(c)}
    /\ PipeStart
    /\ TranscriptionsStart
    /\ IvrStart
    /\ idle = IdleOff
    /\ startup = NotStarted(FALSE)
    /\ server = ServerConstructing

TelephonyNext ==
    \/ \E config \in InboundCallConfigs : create_inbound_route(config)
    \/ ServerConstructed
    \/ \E config \in InboundCallConfigs, credentials \in Credentials :
          InboundRequest(config, credentials)

SpecTelephony == TelephonyInit /\ [][TelephonyNext]_vars

\* ================================================================== claims
\* -------------------------------------------------------------------- C1
\* C1: every broadcast_interrupt interrupts exactly the events that were
\* pending when it ran (registered, interruptible, not interrupted, not yet
\* finished by their stage) and returns true exactly when there was one.
C1_BroadcastInterruptsExactlyPending ==
    \A i \in DOMAIN broadcasts :
        /\ broadcasts[i].interrupted = broadcasts[i].pending
        /\ broadcasts[i].ret = (broadcasts[i].pending # {})

\* -------------------------------------------------------------------- C7
\* C7: over the broadcasts made by the transcription stage and by terminate(),
\* no registered event is drained by two broadcasts or counted as interrupted
\* by two, every broadcast leaves the registry empty, and every event that was
\* interruptible when it was drained has its token set.
C7_BroadcastsAreSerial ==
    /\ \A i, j \in DOMAIN broadcasts :
           i # j => /\ Range(broadcasts[i].drained) \cap Range(broadcasts[j].drained) = {}
                    /\ broadcasts[i].interrupted \cap broadcasts[j].interrupted = {}
    /\ \A i \in DOMAIN broadcasts :
           /\ broadcasts[i].left = <<>>
           /\ broadcasts[i].interrupted \subseteq Range(broadcasts[i].drained)
           /\ \A e \in broadcasts[i].interruptible : events[e].tok \in interruption_set
    /\ \A e \in registered :
           \/ e \in Range(interruptible_events)
           \/ \E i \in DOMAIN broadcasts : e \in Range(broadcasts[i].drained)

\* Both sources have broadcast, and the first of the two to run drained and
\* interrupted an event.
C7_Witness ==
    \E i, j \in DOMAIN broadcasts :
        /\ {broadcasts[i].src, broadcasts[j].src} = {"speech", "terminate"}
        /\ i < j
        /\ broadcasts[i].interrupted # {}

\* -------------------------------------------------------------------- C2
\* Every stage is idle and every queue is empty: nothing is left to run.
Quiescent ==
    /\ arq = <<>> /\ arw.pc = "idle"
    /\ faq = <<>> /\ faw.pc = "idle"
    /\ srq = <<>> /\ srw.pc = "idle"
    /\ outq = <<>> /\ dev.pc = "idle"

\* C2: once nothing is left to run, every agent-response event that a stage
\* has dequeued and processed, to completion or to its cancellation, has its
\* agent_response_tracker set: no tracker is left for a waiter to wait on
\* forever.
C2_TrackersSettled ==
    Quiescent => \A e \in processed : events[e].tracker \in tracker_set

\* -------------------------------------------------------------------- C6
\* The name a chunk event would have in the registry.
ChunkId(c) == 0 - c

Speaking == \E e \in DOMAIN speech : speech[e].pc \in {"chunks", "wait"}

\* C10: the transcriber is muted only while a call of send_speech_to_output
\* is in progress: every call that mutes it unmutes it on its way out.
C10_UnmutedAfterSpeech == muted => Speaking

\* -------------------------------------------------------------------- C4
\* What the output device does with a chunk whose token was set when it took
\* it: never played, interrupted, on_interrupt called once.
StoppedChunkInterrupted(c) ==
    audio_chunks[c].set_at_dequeue =>
        /\ audio_chunks[c].state = "interrupted"
        /\ audio_chunks[c].on_interrupt = 1
        /\ audio_chunks[c].on_play = 0

\* C4, as stated: a chunk whose token is set before it is dispatched, by the
\* sender or by the output device, ends interrupted with on_interrupt called
\* once; so does the chunk the generator yielded when send_speech_to_output
\* found the token set.
C4_StoppedChunkEndsInterrupted ==
    /\ \A c \in DOMAIN audio_chunks : StoppedChunkInterrupted(c)
    /\ \A e \in DOMAIN speech :
           speech[e].pc = "returned" /\ speech[e].interrupted_before_all_chunks_sent =>
               \E c \in DOMAIN audio_chunks :
                   /\ audio_chunks[c].call = e
                   /\ audio_chunks[c].chunk_idx = speech[e].idx
                   /\ audio_chunks[c].state = "interrupted"
                   /\ audio_chunks[c].on_interrupt = 1

\* C4, amended: a chunk whose token is set before the output device takes it
\* is never played: the device marks it interrupted and calls on_interrupt
\* once, and never on_play.  A chunk whose token is set before the sender
\* dispatches it is never handed to the output device at all: it gets no
\* state and no callback, and no later chunk of the call is sent.
C4_StoppedChunkNeverPlayed ==
    /\ \A c \in DOMAIN audio_chunks :
           /\ StoppedChunkInterrupted(c)
           /\ ~audio_chunks[c].set_at_send
           /\ audio_chunks[c].state = "played" =>
                  audio_chunks[c].on_play = 1 /\ audio_chunks[c].on_interrupt = 0
    /\ \A e \in DOMAIN speech :
           speech[e].interrupted_before_all_chunks_sent =>
               \A c \in DOMAIN audio_chunks :
                   audio_chunks[c].call = e => audio_chunks[c].chunk_idx < speech[e].idx

\* A call has returned that withheld a chunk, after one of the chunks it had
\* sent was interrupted by the output device.
C4_Witness ==
    \E c \in DOMAIN audio_chunks :
        /\ audio_chunks[c].set_at_dequeue /\ audio_chunks[c].state = "interrupted"
        /\ audio_chunks[c].call # 0
        /\ speech[audio_chunks[c].call].pc = "returned"
        /\ speech[audio_chunks[c].call].interrupted_before_all_chunks_sent

\* -------------------------------------------------------------------- C5
\* The chunks of call e that the output device has played.
PlayedChunks(e) ==
    Cardinality({i \in DOMAIN speech[e].sent :
                    audio_chunks[speech[e].sent[i]].state = "played"})

\* A call for a bot message has returned, its token having been set after
\* j chunks (1 <= j < n) were sent.
StoppedAfterSomeChunks(e) ==
    /\ speech[e].pc = "returned" /\ speech[e].transcript_message # 0
    /\ speech[e].interrupted_before_all_chunks_sent
    /\ 1 <= Len(speech[e].sent) /\ Len(speech[e].sent) < speech[e].n

\* C5, as stated: such a call returns cut_off, and the transcript message is
\* the prefix for the time of the j chunks sent.
C5_PrefixOfChunksSent ==
    \A e \in DOMAIN speech :
        StoppedAfterSomeChunks(e) =>
            /\ speech[e].cut_off
            /\ transcript[speech[e].transcript_message].text =
                   get_message_up_to(Len(speech[e].sent), speech[e].n)

\* C5, amended: such a call returns cut_off, and the transcript message (not
\* final, and returned as message_sent) is the prefix for the time of the
\* k <= j chunks the output device had played before the token was set.
C5_PrefixOfChunksPlayed ==
    \A e \in DOMAIN speech :
        StoppedAfterSomeChunks(e) =>
            /\ speech[e].cut_off
            /\ PlayedChunks(e) <= Len(speech[e].sent)
            /\ transcript[speech[e].transcript_message].text =
                   get_message_up_to(PlayedChunks(e), speech[e].n)
            /\ ~transcript[speech[e].transcript_message].is_final
            /\ speech[e].message_sent = transcript[speech[e].transcript_message].text

\* The case of three chunks, the token set after the first was sent: played ...
C5_Witness ==
    \E e \in DOMAIN speech :
        /\ StoppedAfterSomeChunks(e)
        /\ speech[e].n = PlaybackChunks /\ Len(speech[e].sent) = 1
        /\ PlayedChunks(e) = 1
        /\ transcript[speech[e].transcript_message].text = <<"a">>

\* ... and not played.
C5_WitnessInterrupted ==
    \E e \in DOMAIN speech :
        /\ StoppedAfterSomeChunks(e)
        /\ speech[e].n = PlaybackChunks /\ Len(speech[e].sent) = 1
        /\ PlayedChunks(e) = 0
        /\ transcript[speech[e].transcript_message].text = <<>>

\* The digit "1" was received while the message node had its queue open.
OneQueued ==
    \E i \in DOMAIN dtmf_received :
        dtmf_received[i].digit = "1" /\ dtmf_received[i].queued

\* The machine is at node A and has not finished; once wait_for_dtmf waits,
\* it goes on waiting on its open queue.
WaitingAtA ==
    /\ ivr.current_node_id = "A" /\ ~ivr.finished_event
    /\ ivr.pc \in {"top", "wait_delay", "wait_for_dtmf"}
    /\ ivr.pc = "wait_for_dtmf" => ~ivr.dtmf_queue_is_none

\* The machine has signalled finished with its cursor on B.
FinishedAtB == ivr.finished_event /\ ivr.current_node_id = "B"

PassesFilters(f) ==
    /\ f.message # <<>>
    /\ ~f.initial_message_ongoing
    /\ \/ f.unignored_open /\ ~cfg.simulate_interrupt
       \/ ~(f.ignored_open \/ f.bot_still_speaking)
       \/ ~f.backchannel

MidUtterance(f) ==
    /\ f.n > 0 /\ ~f.duplicate /\ f.message # <<>>
    /\ ~f.initial_message_ongoing /\ f.bot_still_speaking

\* C9: while the bot is mid-utterance, at normal sensitivity without a
\* simulated interrupt a fragment of at most 3 words or one that matches a
\* filler pattern is classified backchannel, is ignored, and causes neither an
\* interrupt broadcast nor a forward (no utterance that was not ignored being
\* open); at high sensitivity every fragment of at least one word is
\* classified not backchannel, is not ignored and causes an interrupt
\* broadcast.
C9_BackchannelOrInterruption ==
    MidUtterance(tw_last) =>
        /\ (/\ cfg.interrupt_sensitivity # "high" /\ ~cfg.simulate_interrupt
            /\ ~tw_last.unignored_open
            /\ \/ Len(tw_last.message) <= 3
               \/ Cleaned(tw_last.message) \in BACKCHANNEL_PATTERNS)
               => /\ tw_last.backchannel /\ tw_last.ignored
                  /\ ~tw_last.interrupts /\ tw_last.forwarded = 0
        /\ cfg.interrupt_sensitivity = "high"
               => ~tw_last.backchannel /\ ~tw_last.ignored /\ tw_last.interrupts

\* ------------------------------------------------------------------- C11
\* The filler stage is speaking a filler event, and has sent a chunk of it.
FillerSpeaking == faw.pc = "speaking" /\ speech[faw.item].sent # <<>>

\* A call of send_speech_to_output by the given caller is in progress.
InPlayback(caller) ==
    \E e \in DOMAIN speech :
        speech[e].caller = caller /\ speech[e].pc \in {"chunks", "wait"}

\* C11: a message that finds filler audio playing interrupts it and is not
\* dispatched (no synthesis call) before the filler stage has finished with
\* the filler event; filler audio and a message are never in playback at the
\* same time.
C11_NoDispatchDuringFiller ==
    /\ ~(/\ arw.pc = "create_speech"
         /\ FillerSpeaking
         /\ events[faw.item].tok \in interruption_set)
    /\ ~(InPlayback("filler") /\ InPlayback("synthesis"))

\* ------------------------------------------------------------------- C12
\* The stop requests among the agent responses.
StopRequests ==
    {e \in DOMAIN events :
        events[e].kind = "agent_response" /\ events[e].payload = "stop"}

\* The previous dispatch is over: there was none, or its tracker is set.
PreviousDispatchDone ==
    \/ arw.last_agent_response_tracker = 0
    \/ arw.last_agent_response_tracker \in tracker_set

\* C12: the dispatch stage sets the tracker of a stop request only in a step
\* in which the tracker of the previous dispatch, if there was one, is already
\* set, and marks the conversation terminated in that same step; the
\* conversation is marked terminated by such a step or by terminate() only;
\* a stop request taken when the previous dispatch is over is settled in the
\* step that takes it.
C12_StopWaitsForPreviousDispatch ==
    [][/\ \A e \in StopRequests :
              (events[e].tracker \notin tracker_set /\ events[e].tracker \in tracker_set')
                  => PreviousDispatchDone /\ is_terminated'
       /\ (~is_terminated /\ is_terminated')
              => \/ term_pc' # term_pc
                 \/ \E e \in StopRequests :
                        events[e].tracker \notin tracker_set /\ events[e].tracker \in tracker_set'
       /\ \A e \in StopRequests :
              (/\ arq # <<>> /\ Head(arq) = e /\ arq' = Tail(arq) /\ arw'.item = e
               /\ cfg.synthesis_enabled /\ PreviousDispatchDone)
                  => events[e].tracker \in tracker_set' /\ is_terminated'
      ]_vars

\* A stop request waits: the tracker of the previous dispatch is not set, and
\* neither is its own, and the conversation is not marked terminated.
C12_Witness ==
    /\ arw.pc = "wait_last"
    /\ arw.last_agent_response_tracker \notin tracker_set
    /\ events[arw.item].tracker \notin tracker_set
    /\ ~is_terminated

\* ------------------------------------------------------------------- C13
\* The periods before the one in which the idle monitor terminated the
\* conversation.
PeriodsBeforeTermination == 1..(idle.terminated_at - 1)

\* C13: when the idle monitor has marked the conversation terminated, a
\* prompt precedes the termination, and the num_check_human_present_times
\* periods just before it were all silent (and so prompted): a period with
\* activity restarts the count.
C13_TerminatesAfterConsecutivePrompts ==
    idle.terminated_at > 0 =>
        /\ \E j \in PeriodsBeforeTermination : idle.periods[j] = "silent"
        /\ \A j \in (idle.terminated_at - idle.num_check_human_present_times)
                    ..(idle.terminated_at - 1) :
               j \in PeriodsBeforeTermination /\ idle.periods[j] = "silent"

\* ------------------------------------------------------------------- C14
\* One step of the cursor: from a message node along a link whose label is
\* the recognized command, from a play or hold node along the first link.
CursorStep ==
    LET node == CurrentNode
        target == ivr'.current_node_id
    IN  CASE node.type = "message" ->
                 \E i \in DOMAIN node.links :
                     node.links[i].message = ivr.command /\ node.links[i].next = target
          [] node.type \in {"play", "hold"} ->
                 node.links # <<>> /\ node.links[1].next = target
          [] OTHER -> FALSE

\* The command wait_for_dtmf returns is a label of the node that the digit
\* taken from the queue matches.
CommandRecognized ==
    /\ ivr.dtmf_queue # <<>>
    /\ ivr'.command \in {CurrentNode.links[i].message : i \in DOMAIN CurrentNode.links}
    /\ Lower(ivr'.command) = Lower(Head(ivr.dtmf_queue))

\* C14: the cursor always names a node of the DAG; every change of the cursor
\* goes from the current node to the target of one of its links (the link of
\* the recognized command for a message node, the first link for a play or
\* hold node), and never anywhere else.
C14_CursorFollowsLinks ==
    /\ [](ivr.current_node_id \in DOMAIN Dag.nodes)
    /\ [][/\ ivr'.current_node_id # ivr.current_node_id => CursorStep
          /\ ivr'.command # ivr.command => CommandRecognized]_vars

\* The cursor has walked the tour from the play node over the hold node and
\* the message node, which it left by its second link, on the digit "1".
C14_Witness ==
    /\ ivr.dag = "tour" /\ ivr.current_node_id = "B" /\ ivr.command = "1"

\* ------------------------------------------------------------------- C15
\* The cursor of a running machine is on a terminal node.
OnTerminalNode == cfg.ivr_dag /\ CurrentNode.type = "terminal"

\* C15: the finished signal is set only with the cursor on a terminal node
\* and never once the _run task is cancelled, and a machine whose cursor has
\* reached a terminal node sets it, unless it is cancelled before.
C15_FinishedIffTerminal ==
    /\ [](ivr.finished_event => OnTerminalNode)
    /\ [](ivr.pc = "cancelled" => ~ivr.finished_event)
    /\ OnTerminalNode ~> (ivr.finished_event \/ ivr.pc = "cancelled")

\* The machine has finished the tour on the terminal node with a wait_delay.
C15_Witness ==
    /\ ivr.finished_event /\ ivr.dag = "tour"
    /\ ivr.current_node_id = "B" /\ CurrentNode.wait_delay

\* ------------------------------------------------------------------- C19
\* C19: once _run has raised on a malformed DAG the machine is aborted: the
\* cursor and the finished signal stay as they are, and no further prompt is
\* sent.
C19_MalformedDagAborts ==
    [][ivr.pc = "raised" => ivr' = ivr /\ DOMAIN events' = DOMAIN events]_vars

\* ------------------------------------------------------------------- C16
\* The calls of the playback stage that have returned.
ReturnedPlayback ==
    {e \in DOMAIN speech : speech[e].pc = "returned" /\ speech[e].caller = "synthesis"}

\* The chunk loop of the call stopped early on the token, or a chunk it sent
\* ended interrupted.
StoppedOrInterrupted(e) ==
    \/ speech[e].interrupted_before_all_chunks_sent
    \/ \E i \in DOMAIN speech[e].sent :
           audio_chunks[speech[e].sent[i]].state = "interrupted"

\* C16: a call of the playback stage returns cut_off exactly when its loop
\* stopped early or a chunk it sent ended interrupted.  Not cut off, the
\* transcript message is the full message and final, and the agent is not
\* told.  Cut off, the transcript message is the prefix for the chunks played,
\* it is the message returned, and the agent is told of it.
C16_CutOffAndTranscript ==
    \A e \in ReturnedPlayback :
        LET m == transcript[speech[e].transcript_message]
            told == {u \in srw.cut_off_updates : u.item = e}
        IN  /\ speech[e].cut_off <=> StoppedOrInterrupted(e)
            /\ ~speech[e].cut_off =>
                   /\ m.text = MessageText /\ m.is_final
                   /\ speech[e].message_sent = MessageText
                   /\ told = {}
            /\ speech[e].cut_off =>
                   /\ m.text = get_message_up_to(PlayedChunks(e), speech[e].n)
                   /\ ~m.is_final
                   /\ speech[e].message_sent = m.text
                   /\ told = {[item |-> e, message |-> m.text]}

\* A call was cut off after it had played a chunk, and another was not.
C16_Witness ==
    \E e, f \in ReturnedPlayback :
        /\ speech[e].cut_off /\ PlayedChunks(e) > 0
        /\ ~speech[f].cut_off

\* ------------------------------------------------------------------- C17
\* C17: when the transcriber fails to become ready start() fails, and the
\* agent is not started, no initial message and no IVR flow is launched, and
\* the idle monitor is not started.
C17_FailedStartLaunchesNothing ==
    startup.pc = "failed" =>
        /\ ~startup.agent_started
        /\ startup.launched = "none" /\ events = <<>>
        /\ idle.pc = "off"

\* start() has failed, of a conversation with an initial message and of one
\* with an ivr_config.
C17_Witness ==
    startup.pc = "failed" /\ (cfg.initial_message \/ startup.ivr_config)

\* ------------------------------------------------------------------- C18
\* The dispatch stage processes the event at the head of its queue in this
\* step, synthesis being disabled.
ProcessesWhileDisabled ==
    /\ ~cfg.synthesis_enabled
    /\ arq # <<>> /\ arq' = Tail(arq)
    /\ Head(arq) \in processed' /\ Head(arq) \notin processed

\* C18: with synthesis disabled the dispatch stage processes a response of
\* any kind without a synthesizer call, without an event for the playback or
\* the filler stage, without marking the conversation terminated or setting
\* a tracker, and with its first-chunk flag and last tracker unchanged.
C18_DisabledDispatchIsNoOp ==
    [][ProcessesWhileDisabled =>
          /\ arw'.pc = "idle"
          /\ srq' = srq /\ faq' = faq
          /\ DOMAIN events' = DOMAIN events
          /\ is_terminated' = is_terminated /\ tracker_set' = tracker_set
          /\ arw'.is_first_text_chunk = arw.is_first_text_chunk
          /\ arw'.last_agent_response_tracker = arw.last_agent_response_tracker]_vars

\* With synthesis disabled the stage has processed a filler request, a stop
\* request, a message or an end of turn.
C18_Witness ==
    /\ ~cfg.synthesis_enabled
    /\ \E e, f \in processed :
           /\ events[e].payload \in {"filler_audio", "stop"}
           /\ events[f].payload \in {"message", "end_of_turn"}

\* ------------------------------------------------------------------- C20
\* C20: a fragment that is no duplicate, not empty and not ignored, processed
\* while the bot is still speaking, makes process() call broadcast_interrupt,
\* the first fragment of an utterance and a lone final fragment included.
C20_UnignoredFragmentBroadcasts ==
    (/\ tw_last.n > 0 /\ ~tw_last.duplicate /\ tw_last.message # <<>>
     /\ ~tw_last.ignored /\ tw_last.bot_still_speaking)
        => tw_last.interrupts

\* ------------------------------------------------------------------- C21
\* The agent input forwarded for the fragment just processed.
LastAgentInput == agent_q[Len(agent_q)]

\* C21: a final fragment forwarded to the agent carries is_interrupt = TRUE
\* only if a broadcast_interrupt made for a fragment of the same utterance has
\* interrupted at least one event; the flag of an earlier utterance does not
\* carry over.
C21_InterruptFlagFromOwnUtterance ==
    (tw_last.n > 0 /\ tw_last.forwarded = 1 /\ LastAgentInput.is_interrupt)
        => tw_last.utterance_hit

\* ------------------------------------------------------------------- C22
\* C22: after process() of a final fragment is_human_speaking is FALSE,
\* whatever became of the fragment (forwarded, dropped as a duplicate, empty,
\* ignored as backchannel or during the initial message).
C22_NotSpeakingAfterFinal ==
    (tw_last.n > 0 /\ tw_last.is_final) => ~is_human_speaking

\* ------------------------------------------------------------------- C23
\* process() has been called with a fragment in this step.
FragmentProcessed == tw_last'.n = tw_last.n + 1

\* C23: a fragment processed while the initial message is still being
\* delivered (initial_message_tracker not set) causes no interrupt broadcast,
\* interrupts and forwards no event, and leaves is_human_speaking and
\* current_transcription_is_interrupt as they are.
C23_IgnoredDuringGreeting ==
    [][(FragmentProcessed /\ initial_message_tracker \notin tracker_set)
          => UNCHANGED <<broadcasts, interruption_set, interruptible_events, events,
                         agent_q, arw, is_human_speaking,
                         current_transcription_is_interrupt>>]_vars

\* A final fragment, not empty and no duplicate, has been processed while the
\* bot was still speaking its initial message.
C23_Witness ==
    /\ tw_last.n > 0 /\ tw_last.initial_message_ongoing
    /\ tw_last.is_final /\ ~tw_last.duplicate /\ Len(tw_last.message) > 3
    /\ tw_last.bot_still_speaking
    /\ \E e \in DOMAIN events : Pending(e)

\* ------------------------------------------------------------------- C24
\* The texts of the human turns of the transcript marked as backchannel.
RECURSIVE BackchannelTexts(_)
BackchannelTexts(tr) ==
    IF tr = <<>> THEN <<>>
    ELSE IF Head(tr).sender = "human" /\ Head(tr).is_backchannel
         THEN <<Head(tr).text>> \o BackchannelTexts(Tail(tr))
         ELSE BackchannelTexts(Tail(tr))

\* The step of process() that ignores a final fragment puts it at the end of
\* the buffer, forwards nothing and adds nothing to the transcript.
IgnoredFinalIsBuffered ==
    (FragmentProcessed /\ tw_last'.is_final /\ tw_last'.ignored)
        => /\ tw'.human_backchannels_buffer =
                  Append(tw.human_backchannels_buffer, tw_last'.message)
           /\ agent_q' = agent_q
           /\ transcript' = transcript

\* The step of process() that forwards a final fragment first appends the
\* buffered fragments to the transcript, one backchannel turn of the human
\* each, in the order of the buffer, and leaves the buffer empty; the one
\* event it forwards is that of the fragment.
ForwardFlushesBuffer ==
    (FragmentProcessed /\ tw_last'.forwarded = 1)
        => /\ Len(transcript') = Len(transcript) + Len(tw.human_backchannels_buffer)
           /\ SubSeq(transcript', 1, Len(transcript)) = transcript
           /\ BackchannelTexts(transcript') =
                  BackchannelTexts(transcript) \o tw.human_backchannels_buffer
           /\ tw'.human_backchannels_buffer = <<>>
           /\ Len(agent_q') = Len(agent_q) + 1
           /\ agent_q'[Len(agent_q')].fragment = tw_last'.n

\* No other step changes the buffer or the backchannel turns of the transcript.
OtherStepsKeepBuffer ==
    ~(FragmentProcessed /\ tw_last'.is_final /\ (tw_last'.ignored \/ tw_last'.forwarded = 1))
        => /\ tw'.human_backchannels_buffer = tw.human_backchannels_buffer
           /\ BackchannelTexts(transcript') = BackchannelTexts(transcript)

\* C24: every final fragment ignored during the initial message or as
\* backchannel is buffered; the buffer is appended to the transcript, once and
\* in order, as backchannel turns of the human by the next final fragment that
\* passes every filter, before that fragment is forwarded; the buffer is empty
\* afterwards and no buffered fragment is forwarded.
C24_IgnoredFinalsReachTranscript ==
    [][IgnoredFinalIsBuffered /\ ForwardFlushesBuffer /\ OtherStepsKeepBuffer]_vars

\* Two ignored final fragments have been appended to the transcript by the
\* final fragment just forwarded.
C24_Witness ==
    /\ tw_last.n > 0 /\ tw_last.forwarded = 1
    /\ Len(BackchannelTexts(transcript)) = 2
    /\ tw.human_backchannels_buffer = <<>>

\* ------------------------------------------------------------------- C25
\* The fragment processed in this step has the text of the fragment delivered
\* just before it, and arrives less than half a second after it.
RepeatsPreceding ==
    /\ FragmentProcessed /\ tw_last.n > 0
    /\ tw_last'.message = tw_last.message
    /\ now' - now < DedupWindow

\* C25: a fragment with the text of the fragment just before it, arriving
\* within 0.5 s of it, is dropped with no effect (nothing forwarded, no
\* broadcast, last_action_timestamp, is_human_speaking and the backchannel
\* buffer unchanged); a fragment with another text, or with the same text 0.5 s
\* or more later, is not dropped by the deduplication.
C25_RepeatedFragmentDropped ==
    [][/\ RepeatsPreceding
           => /\ tw_last'.duplicate
              /\ UNCHANGED <<agent_q, broadcasts, last_action_timestamp, is_human_speaking>>
              /\ tw'.human_backchannels_buffer = tw.human_backchannels_buffer
       /\ (FragmentProcessed /\ ~RepeatsPreceding) => ~tw_last'.duplicate]_vars

\* The fragment processed in this step has the text of the last fragment that
\* was not dropped, and arrives less than half a second after that one.
RepeatsLastKept ==
    /\ FragmentProcessed
    /\ tw_last'.message = tw.last_transcription
    /\ tw.last_transcription_time # 0
    /\ now' - tw.last_transcription_time < DedupWindow

\* The deduplication as process() does it: the window is measured from the
\* last fragment that was not dropped.
DedupFromLastKept ==
    [][/\ RepeatsLastKept
           => /\ tw_last'.duplicate
              /\ UNCHANGED <<agent_q, broadcasts, last_action_timestamp, is_human_speaking,
                             tw, interruption_set, events, transcript>>
       /\ (FragmentProcessed /\ ~RepeatsLastKept)
           => /\ ~tw_last'.duplicate
              /\ last_action_timestamp' = now'
              /\ tw'.last_transcription_time = now']_vars

\* ------------------------------------------------------------------- C26
\* The device plays the chunk or has played it.
PlayedOrPlaying(c) ==
    \/ audio_chunks[c].state = PlayedState
    \/ dev.pc = "playing" /\ dev.item = c

\* C26: no chunk that was in the queue of the output device when a
\* broadcast_interrupt ran is played after the broadcast has returned.
C26_QueuedChunksNotPlayed ==
    \A i \in DOMAIN broadcasts : \A c \in broadcasts[i].queued : ~PlayedOrPlaying(c)

\* ------------------------------------------------------------------- C27
\* The chunks of send_speech_to_output put in the device's queue in this step.
ChunksEnqueued == {c \in Range(outq') \ Range(outq) : audio_chunks'[c].call # 0}

\* C27: send_speech_to_output puts no chunk in the queue of the output device
\* once a broadcast_interrupt that set the token of the utterance has
\* completed: at the step that enqueues a chunk, its token is not set.
C27_NoChunkSentAfterBroadcast ==
    [][\A c \in ChunksEnqueued : audio_chunks'[c].tok \notin interruption_set]_vars

\* A call has sent a chunk and has more to send, and a broadcast has set its
\* token since: the next chunk the generator yields is withheld.
C27_Witness ==
    \E e \in DOMAIN speech :
        /\ speech[e].pc = "chunks" /\ speech[e].idx < speech[e].n
        /\ speech[e].sent # <<>>
        /\ \E i \in DOMAIN broadcasts : e \in broadcasts[i].interrupted
        /\ events[e].tok \in interruption_set

\* ------------------------------------------------------------------- C28
\* The on_play() of the chunk raises in this step.
OnPlayRaises(c) == audio_chunks'[c].on_play_raised /\ ~audio_chunks[c].on_play_raised

\* The last chunk the call has sent.
LastSent(e) == speech[e].sent[Len(speech[e].sent)]

\* C28: when the on_play() of a chunk raises, the loop of the output device
\* goes on to the next chunk, the chunk reaches state played and its
\* processed_event is set, so that a send_speech_to_output waiting for its last
\* chunk can return.
C28_OnPlayErrorContained ==
    /\ [][\A c \in DOMAIN audio_chunks :
              OnPlayRaises(c) =>
                  /\ audio_chunks'[c].state = "played"
                  /\ audio_chunks'[c].processed_event
                  /\ dev'.pc = "idle" /\ outq' = outq]_vars
    /\ [](\A c \in DOMAIN audio_chunks :
              audio_chunks[c].on_play_raised =>
                  audio_chunks[c].state = "played" /\ audio_chunks[c].processed_event)
    /\ [](\A e \in DOMAIN speech :
              (speech[e].pc = "wait" /\ audio_chunks[LastSent(e)].on_play_raised)
                  => ENABLED SS_LastProcessed(e))

\* A call has returned whose last chunk's on_play() had raised, and the device
\* has played a chunk after the one whose on_play() raised.
C28_Witness ==
    /\ \E e \in DOMAIN speech :
           /\ speech[e].pc = "returned" /\ speech[e].sent # <<>>
           /\ audio_chunks[LastSent(e)].on_play_raised
    /\ \E c, d \in DOMAIN audio_chunks :
           /\ c < d /\ audio_chunks[c].on_play_raised
           /\ audio_chunks[d].state = "played" /\ ~audio_chunks[d].on_play_raised

\* ------------------------------------------------------------------- C29
\* The loop of the output device has taken the chunk and is done with it.
DeviceDoneWith(c) ==
    /\ c \notin Range(outq)
    /\ ~(dev.item = c /\ dev.pc \in {"playing", "terminated"})

\* The state of the chunk and the calls of its callbacks agree.
CallbacksMatchState(c) ==
    LET k == audio_chunks[c]
    IN  /\ k.state \in {"unplayed", "played", "interrupted"}
        /\ k.state = "unplayed" => k.on_play = 0 /\ k.on_interrupt = 0
        /\ k.state = "played" => k.on_play = 1 /\ k.on_interrupt = 0
        /\ k.state = "interrupted" => k.on_play = 0 /\ k.on_interrupt = 1

LastMarkerBefore(item) ==
    LET markers == {e \in AgentResponses :
                       e < item /\ events[e].payload = "end_of_turn"}
    IN  IF markers = {} THEN 0
        ELSE CHOOSE m \in markers : \A k \in markers : k <= m

\* The messages of the utterance of the response that were dispatched before
\* it: create_speech has returned for them and their result was forwarded.
DispatchedBefore(item) ==
    {e \in AgentResponses :
        /\ LastMarkerBefore(item) < e /\ e < item
        /\ events[e].payload = "message"
        /\ Derived(e) \in DOMAIN events}

\* process() calls create_speech in this step.
CallsCreateSpeech == arw.pc = "idle" /\ arw'.pc = "create_speech"

\* C30: is_first_text_chunk is TRUE after an end-of-turn marker is processed
\* and FALSE after a message is dispatched, and within each utterance the
\* message passed to create_speech with is_first_text_chunk = TRUE is the
\* first one dispatched, also in the utterance after one that an interrupt
\* has cut short.
C30_FirstChunkTaggedPerUtterance ==
    [][/\ CallsCreateSpeech =>
              (arw.is_first_text_chunk <=> DispatchedBefore(arw'.item) = {})
       /\ (arw.pc = "create_speech" /\ arw'.pc = "idle" /\ ~arw.cancel)
              => ~arw'.is_first_text_chunk
       /\ (arw.pc = "idle" /\ arw'.pc = "idle" /\ arw'.item # arw.item
             /\ events[arw'.item].payload = "end_of_turn"
             /\ Derived(arw'.item) \in DOMAIN events')
              => arw'.is_first_text_chunk]_vars

\* ------------------------------------------------------------------- C31
\* A step that is one turn of the loop of check_for_idle.
IdleTurn == Len(idle'.periods) = Len(idle.periods) + 1

\* C31: while check_for_idle_paused is true the monitor takes its turns but
\* no step queues a prompt, raises the count or marks the conversation
\* terminated; a call that un-pauses sets the last-activity time to the
\* current time, and no period within idle_time_threshold of the un-pausing
\* is silent.
C31_PausedMonitorIsQuiet ==
    /\ [][idle.check_for_idle_paused =>
              /\ is_terminated' = is_terminated
              /\ IdleTurn => /\ arq' = arq /\ events' = events
                             /\ idle'.check_human_present_count =
                                    idle.check_human_present_count]_vars
    /\ [][idle.check_for_idle_paused /\ ~idle'.check_for_idle_paused =>
              last_action_timestamp' = now]_vars
    /\ [][IdleTurn /\ idle'.periods[Len(idle'.periods)] = "silent" =>
              idle.resumed_at = 0 \/ now - idle.resumed_at > idle_time_threshold]_vars

\* The monitor has taken turns while paused, was un-paused by a call made
\* long after the last activity, and has had a silent period since.
C31_Witness ==
    /\ idle.paused_turns >= 2
    /\ idle.pause_calls > 0 /\ idle.resumed_at > ALLOWED_IDLE_TIME
    /\ idle.periods # <<>> /\ idle.periods[Len(idle.periods)] = "silent"

\* ------------------------------------------------------------------- C36
\* C36: a turn of check_for_idle that leaves the conversation marked
\* terminated (action_on_idle has run in it, or is_active() was already
\* false) enqueues no message to the dispatch stage.
C36_NoPromptOnceTerminated ==
    [][IdleTurn /\ is_terminated' => arq' = arq]_vars

\* ------------------------------------------------------------------- C37
\* A step in which a DTMF digit is received.
DigitReceived == Len(dtmf_received') = Len(dtmf_received) + 1

\* _run is alive and not waiting in wait_for_dtmf: before a message node
\* waits, in a play or hold node, or after a digit has matched.
NotWaitingForDtmf == ivr.pc \notin {"off", "wait_for_dtmf", "cancelled"}

\* The digits received, with the node the cursor was on, while wait_for_dtmf
\* was waiting.
DigitsHeard(node_id) ==
    {Lower(dtmf_received[i].digit) : i \in
        {j \in DOMAIN dtmf_received :
            dtmf_received[j].queued /\ dtmf_received[j].node = node_id}}

\* C37: a digit received while the machine is not waiting in a DTMF message
\* node changes nothing, and the command a DTMF message node leaves with is a
\* digit that was received while that node was waiting.
C37_DigitOutsideDtmfNodeDiscarded ==
    /\ [][DigitReceived /\ NotWaitingForDtmf =>
              /\ UNCHANGED <<pipe_vars, tw_vars, conv_vars, ivr, loop_task>>
              /\ ~dtmf_received'[Len(dtmf_received')].queued]_vars
    /\ [][ivr.pc = "wait_for_dtmf" /\ ivr'.pc = "await_loop_task" =>
              Lower(ivr'.command) \in DigitsHeard(ivr.current_node_id)]_vars

\* The digit "1" was received before the first node waited and again after
\* it had matched, and the second message node is still waiting.
C37_Witness ==
    /\ ivr.dag = "menus" /\ ivr.current_node_id = "M" /\ ivr.pc = "wait_for_dtmf"
    /\ ivr.dtmf_queue = <<>>
    /\ Len(dtmf_received) >= 2
    /\ \E i, j \in DOMAIN dtmf_received :
           /\ i < j
           /\ ~dtmf_received[i].queued /\ dtmf_received[i].digit = "1"
           /\ dtmf_received[j].queued /\ dtmf_received[j].node = "A"

\* ------------------------------------------------------------------- C32
\* The received message matches none of the node's commands at or above the
\* fuzzy threshold.
MatchesNoCommand(node, received) ==
    \A i \in DOMAIN node.links :
        partial_ratio(LowerText(node.links[i].message), LowerText(received))
            < fuzz_threshold

\* The transcriptions, among those process() was given, that reached the
\* matcher's queue.
HeardQueued == SelectSeq(ivr.heard, LAMBDA h : h.queued)

SomeMatchQueued == \E i \in DOMAIN HeardQueued :
                       ~MatchesNoCommand(Dag.nodes[Dag.start], HeardQueued[i].message)

\* The node of the first link matched by the first transcription queued that
\* matches a command.
FirstMatchTarget ==
    LET node == Dag.nodes[Dag.start]
        matching == SelectSeq(HeardQueued,
                              LAMBDA h : ~MatchesNoCommand(node, h.message))
        Score(i) == partial_ratio(LowerText(node.links[i].message),
                                  LowerText(matching[1].message))
        first == CHOOSE i \in DOMAIN node.links :
                     /\ Score(i) >= fuzz_threshold
                     /\ \A j \in 1..(i - 1) : Score(j) < fuzz_threshold
    IN  IF SomeMatchQueued THEN node.links[first].next ELSE "none"

\* C32: as long as no final transcription that matches a command has reached
\* the matcher, the cursor stays on the spoken-command node, the task that
\* repeats the prompt is not cancelled and finished is not signalled; only
\* final transcriptions reach the matcher; and once a matching one has, the
\* cursor goes to the node of the first link it matches, whatever
\* non-matching ones came before.
C32_UnmatchedTranscriptionIgnored ==
    /\ [](~SomeMatchQueued =>
              /\ ivr.current_node_id = Dag.start
              /\ ivr.pc \in {"top", "wait_for_command"}
              /\ ivr.command = "none"
              /\ ~loop_task.cancel
              /\ ~ivr.finished_event)
    /\ [](\A i \in DOMAIN ivr.heard : ivr.heard[i].queued => ivr.heard[i].is_final)
    /\ (SomeMatchQueued ~> ivr.current_node_id = FirstMatchTarget)

\* A non-final and a non-matching final transcription were given while the
\* node was listening, then a matching one, and the machine has finished on
\* the node of the matching link.
C32_Witness ==
    /\ Len(ivr.heard) = 3
    /\ ~ivr.heard[1].is_final /\ ~ivr.heard[1].queued
    /\ ivr.heard[2].queued /\ ivr.heard[2].message = "salt"
    /\ ivr.heard[3].queued /\ ivr.heard[3].message = "an agent"
    /\ ivr.current_node_id = "C" /\ ivr.finished_event

\* ------------------------------------------------------------------- C33
\* The events that are not interruptible: those created with
\* is_interruptible = false, and those a stage has finished with.
NotInterruptible == {e \in DOMAIN events : ~events[e].is_interruptible}

\* The audio chunks of play_audio, and those sent for a synthesis event
\* created with is_interruptible = false (the playback stage leaves the flag
\* of its events as they were created).
ChunksOfNotInterruptible ==
    {c \in DOMAIN audio_chunks :
        \/ audio_chunks[c].call = 0
        \/ /\ audio_chunks[c].call \in NotInterruptible
           /\ events[audio_chunks[c].call].kind = "synthesis"}

StopDequeued ==
    \E e \in DOMAIN events :
        /\ events[e].kind = "agent_response" /\ events[e].payload = "stop"
        /\ e \in processed \/ (arw.item = e /\ arw.pc = "wait_last")

\* C34: every stop request the dispatch stage has called process() on leads
\* to the conversation being marked terminated.
C34_StopAlwaysTerminates == StopDequeued ~> is_terminated

\* ------------------------------------------------------------------- C38
\* No call of send_speech_to_output is in progress.
NoPlaybackInProgress ==
    /\ srw.pc = "idle"
    /\ \A e \in DOMAIN speech : speech[e].pc = "returned"

\* The dispatch stage, the playback stage, the filler audio stage and the
\* output device have nothing queued and nothing in hand.
NoPendingBotEvent ==
    /\ arq = <<>> /\ arw.pc = "idle"
    /\ srq = <<>>
    /\ faq = <<>> /\ faw.pc = "idle"
    /\ outq = <<>> /\ dev.pc = "idle"

\* The agent has ended its turn: the last response it handed over is an end
\* of turn.
AgentTurnEnded ==
    /\ AgentResponses # {}
    /\ \E e \in AgentResponses :
           /\ events[e].payload = "end_of_turn"
           /\ \A f \in AgentResponses : f <= e

\* C38: when no playback is in progress, the stages and the output device
\* have no pending bot event and the agent has ended its turn, the
\* transcription stage takes the bot neither for still speaking nor for being
\* in medias res.
C38_QuietBotNotSpeaking ==
    NoPlaybackInProgress /\ NoPendingBotEvent /\ AgentTurnEnded =>
        ~is_bot_still_speaking /\ ~is_bot_in_medias_res

\* ---------------------------------------------------------------------- C35
\* A transcription is put on the agent's input queue.
ForwardedToAgent == Len(agent_q') > Len(agent_q)

\* The handoff has completed: the IVR machine has signalled finished and the
\* initial message, if there is one, has been delivered.
HandoffCompleted ==
    /\ ivr.finished_event
    /\ cfg.initial_message => handoff_message_tracker \in tracker_set

\* C35: in a conversation started with an IVR DAG, the consumer of the
\* transcription stage is the IVR worker until the IVR machine has signalled
\* finished, it becomes the agent only when the handoff, and the initial
\* message if there is one, has completed, and no transcription is forwarded
\* to the agent before that.
C35_AgentConsumesAfterHandoff ==
    /\ [](~ivr.finished_event => startup.consumer = "ivr_worker")
    /\ [](startup.consumer = "agent" => HandoffCompleted)
    /\ [](agent_q # <<>> => HandoffCompleted)
    /\ [][ForwardedToAgent => startup.consumer = "agent" /\ HandoffCompleted]_vars

\* The IVR worker was given a transcription, and after the handoff with an
\* initial message the agent was given one.
C35_Witness ==
    /\ cfg.initial_message
    /\ ivr.heard # <<>>
    /\ agent_q # <<>>
    /\ startup.handoff = "done"

\* ---------------------------------------------------------------------- C39
\* The requests a route of the provider has answered that had to be rejected:
\* the route verifies tokens and the bearer token is missing or is not the
\* configured one.
Unverified(provider) ==
    {i \in 1..Len(server.requests) :
        /\ server.requests[i].route.provider = provider
        /\ server.requests[i].route.verify_token
        /\ server.requests[i].credentials # server.requests[i].route.auth_token}

\* Every such request was answered with the 401, without a call config saved
\* or a call created.
RejectedUnverified(provider) ==
    \A i \in Unverified(provider) :
        /\ server.requests[i].status = 401
        /\ ~server.requests[i].config_saved
        /\ ~server.requests[i].call_created

\* No route that verifies tokens was created without an auth_token: such a
\* config ends the construction of the server.
RoutesHaveToken ==
    /\ \A config \in server.routes : config.verify_token => config.auth_token # NoToken
    /\ server.refused # {} => server.pc = "failed"

\* C39: on every inbound route with verify_token = true, Twilio or Vonage, a
\* request without a bearer token equal to the configured auth_token is
\* rejected and neither saves a call config nor creates a call; a config with
\* verify_token = true and no auth_token is rejected when its route is created.
C39_UnverifiedRequestRejected ==
    /\ RejectedUnverified("twilio")
    /\ RejectedUnverified("vonage")
    /\ RoutesHaveToken

====
